---------------------------- MODULE Spec2Model ----------------------------
(***************************************************************************)
(* A model of sdl3-rs: the clipboard wrapper (src/sdl3/clipboard.rs) and   *)
(* the GPU descriptor builders (src/sdl3/gpu/info_struct.rs).              *)
(*                                                                         *)
(* Strings are sequences of bytes.  A Rust &str is a valid UTF-8 sequence  *)
(* that may hold the byte 0; a C string is a buffer read up to its first   *)
(* byte 0.  The SDL library is the environment: its clipboard, its         *)
(* allocator and its last-error message are variables, and each of its     *)
(* entry points is an operator that gives the set of outcomes the call can *)
(* have.                                                                   *)
(***************************************************************************)
EXTENDS Integers, Sequences, FiniteSets, TLC

VARIABLES
    clipboard,   \* SDL: the text on the clipboard, a byte sequence without 0
    lastError,   \* SDL: the message SDL_GetError() returns to the sequential caller
    heap,        \* SDL: the buffers SDL_GetClipboardText handed out, not yet SDL_free'd
    op,          \* the sequential caller's last clipboard operation and its argument
    ret,         \* what that operation returned (or that it panicked)
    trace,       \* the external calls that operation made, in order
    lastSet,     \* history: the text of the last successful set not overwritten since
    everSet,     \* history: whether set_clipboard_text was ever called
    cstring,     \* the CString the last set_clipboard_text made, and what became of it
    threads,     \* concurrent callers: where each one is in its call, and its local buf
    d,           \* the descriptor being built (a builder value: self)
    call,        \* the last builder call: new() or a setter, and its argument
    ncalls,      \* the setter calls made on d since new()
    alive        \* the resources (textures, buffers, samplers, slices) not yet dropped

clipVars == <<clipboard, lastError, heap, op, ret, trace, lastSet, everSet, cstring, threads>>

gpuVars == <<d, call, ncalls, alive>>

vars == <<clipVars, gpuVars>>

\* ------------------------------------------------------------------ bounds

\* Longest text handed to set_clipboard_text or put on the clipboard by another program.
MaxLen == 2

\* Number of buffers SDL's allocator can hand out before SDL_GetClipboardText gets none.
MaxBufs == 2

\* ------------------------------------------------------------------ bytes

\* 0 is NUL, 65 is 'A', <<195, 169>> is the two-byte encoding of U+00E9;
\* 195 or 169 on its own is not valid UTF-8.
Bytes == {0, 65, 195, 169}

RECURSIVE SeqsUpTo(_, _)
SeqsUpTo(S, n) ==
    IF n = 0 THEN {<<>>}
    ELSE LET shorter == SeqsUpTo(S, n - 1)
         IN  shorter \cup {Append(s, b) : s \in {t \in shorter : Len(t) = n - 1}, b \in S}

Range(s) == {s[i] : i \in 1..Len(s)}

IsCont(b) == b >= 128 /\ b <= 191

\* core::str::from_utf8's validation (what CStr::to_str runs).
RECURSIVE IsUtf8(_)
IsUtf8(s) ==
    IF s = <<>> THEN TRUE
    ELSE LET b == Head(s)
             n == Len(s)
         IN  IF b < 128 THEN IsUtf8(Tail(s))
             ELSE IF b >= 194 /\ b <= 223
                  THEN n >= 2 /\ IsCont(s[2]) /\ IsUtf8(SubSeq(s, 3, n))
             ELSE IF b >= 224 /\ b <= 239
                  THEN /\ n >= 3
                       /\ IsCont(s[2]) /\ IsCont(s[3])
                       /\ (b = 224 => s[2] >= 160)
                       /\ (b = 237 => s[2] <= 159)
                       /\ IsUtf8(SubSeq(s, 4, n))
             ELSE IF b >= 240 /\ b <= 244
                  THEN /\ n >= 4
                       /\ IsCont(s[2]) /\ IsCont(s[3]) /\ IsCont(s[4])
                       /\ (b = 240 => s[2] >= 144)
                       /\ (b = 244 => s[2] <= 143)
                       /\ IsUtf8(SubSeq(s, 5, n))
             ELSE FALSE

\* The values a caller can pass as text: &str, so valid UTF-8, the byte 0 allowed.
StrInputs == {s \in SeqsUpTo(Bytes, MaxLen) : IsUtf8(s)}

\* What another program can leave on the clipboard: any bytes but 0.
ForeignTexts == SeqsUpTo(Bytes \ {0}, MaxLen)

\* ------------------------------------------------------------------ Rust std

\* CString_new with C's reading of the text: cut at the first byte 0, never an error.
CString_new_truncating(text) ==
    LET cut == {i \in 1..Len(text) : text[i] = 0}
        n == IF cut = {} THEN Len(text)
             ELSE (CHOOSE i \in cut : \A j \in cut : i <= j) - 1
    IN  [ok |-> TRUE, bytes |-> Append(SubSeq(text, 1, n), 0)]

\* CString::new: Err(NulError) when the text holds a byte 0, else the bytes
\* with the terminator appended.
CString_new(text) ==
    IF 0 \in Range(text)
    THEN [ok |-> FALSE, bytes |-> <<>>]
    ELSE [ok |-> TRUE, bytes |-> Append(text, 0)]

\* CStr_from_ptr that takes the terminator for part of the text.
CStr_from_ptr_with_terminator(buf) ==
    LET n == CHOOSE i \in 1..Len(buf) :
                 buf[i] = 0 /\ \A j \in 1..(i - 1) : buf[j] # 0
    IN  SubSeq(buf, 1, n)

\* CStr::from_ptr(buf).to_bytes(): the bytes before the first 0 of the buffer.
CStr_from_ptr(buf) ==
    LET n == CHOOSE i \in 1..Len(buf) :
                 buf[i] = 0 /\ \A j \in 1..(i - 1) : buf[j] # 0
    IN  SubSeq(buf, 1, n - 1)

\* to_str that loses the last byte of the text.
to_str_short(bytes) ==
    [ok |-> IsUtf8(bytes),
     str |-> IF bytes = <<>> THEN bytes ELSE SubSeq(bytes, 1, Len(bytes) - 1)]

\* CStr::to_str: Err(Utf8Error) unless the bytes are valid UTF-8.
to_str(bytes) == [ok |-> IsUtf8(bytes), str |-> bytes]

\* ------------------------------------------------------------------ SDL

ErrMsgs == {"E1", "E2"}

NULL == 0

\* SDL_SetClipboardText(buf): copies the C string and makes it the clipboard
\* text (an empty text clears the clipboard); on failure it sets the error
\* message, and the previous text is kept or already dropped.
SDL_SetClipboardText(buf) ==
    {[result |-> TRUE, clipboard |-> CStr_from_ptr(buf), lastError |-> lastError]}
    \cup
    {[result |-> FALSE, clipboard |-> c, lastError |-> e] :
        c \in {clipboard, <<>>}, e \in ErrMsgs}

\* SDL_GetClipboardText(): a fresh buffer of SDL's allocator holding the
\* clipboard text and its terminator, or NULL with the error message set.
SDL_GetClipboardText ==
    LET free == (1..MaxBufs) \ heap
    IN  {[buf |-> NULL, bytes |-> <<>>, lastError |-> e] : e \in ErrMsgs}
        \cup
        (IF free = {} THEN {}
         ELSE {[buf |-> CHOOSE p \in free : \A q \in free : p <= q,
                bytes |-> Append(clipboard, 0),
                lastError |-> lastError]})

\* SDL_HasClipboardText(): whether the clipboard holds a non-empty text.
SDL_HasClipboardText == clipboard # <<>>

\* crate::get_error(): the message SDL_GetError() returns, as an Error.
get_error(msg) == msg

\* ------------------------------------------------------------------ results

NoText == <<>>

Returned(kind, text, err, flag) ==
    [kind |-> kind, text |-> text, err |-> err, flag |-> flag]

Ok(text, flag) == Returned("Ok", text, "", flag)
Err(e) == Returned("Err", NoText, e, FALSE)
Panic == Returned("panic", NoText, "", FALSE)
NoReturn == Returned("none", NoText, "", FALSE)

Call(fn, ptr, ok) == [fn |-> fn, ptr |-> ptr, ok |-> ok]

NoSet == [valid |-> FALSE, text |-> NoText]

\* No CString: no set_clipboard_text was called yet, or the last one made none.
NoCString == [bytes |-> <<>>, fate |-> "none"]

\* Callers of the clipboard functions that run concurrently.
Threads == {"t1", "t2"}

\* A caller between calls: pc is where it is in its call, buf its local
\* `buf` (clipboard_text), s its local `s`, text the bytes of its local
\* CString `text` (set_clipboard_text), latest whether that CString is the
\* one made last by any caller, err the error message SDL keeps for its
\* thread, ret what its last call returned, fault whether it read or freed a
\* buffer that was not allocated.
Idle ==
    [pc |-> "idle", buf |-> NULL, s |-> NoText, text |-> NoText, latest |-> FALSE,
     err |-> "", ret |-> NoReturn, fault |-> FALSE]

\* The concurrent callers after a set_clipboard_text made a CString: the
\* CString of none of them is the one made last any more.
NotLatest == [t \in Threads |-> [threads[t] EXCEPT !.latest = FALSE]]

\* ------------------------------------------------------------------ clipboard.rs

\* set_clipboard_text_result with the test of the bool inverted.
set_clipboard_text_result_inverted(result, msg) ==
    IF result THEN Err(get_error(msg)) ELSE Ok(NoText, FALSE)

\* set_clipboard_text, lines 39-43: the Result made of SDL_SetClipboardText's bool.
set_clipboard_text_result(result, msg) ==
    IF ~result THEN Err(get_error(msg)) ELSE Ok(NoText, FALSE)

\* set_clipboard_text ending in CString::into_raw: the copy is left to SDL.
CString_into_raw(c) == [bytes |-> c.bytes, fate |-> "given"]

\* set_clipboard_text, lines 36-44: the CString `text` is a local; it is
\* dropped, and its buffer freed, when the function returns.
CString_drop(c) == [bytes |-> c.bytes, fate |-> "freed"]

\* ClipboardUtil::set_clipboard_text
set_clipboard_text(text) ==
    LET c == CString_new(text)
    IN  /\ op' = [name |-> "set_clipboard_text", text |-> text]
        /\ everSet' = TRUE
        /\ threads' = NotLatest
        /\ IF ~c.ok
           THEN \* CString::new(text).unwrap() panics
                /\ ret' = Panic
                /\ trace' = <<>>
                /\ cstring' = NoCString
                /\ UNCHANGED <<clipboard, lastError, heap, lastSet>>
           ELSE \E o \in SDL_SetClipboardText(c.bytes) :
                /\ clipboard' = o.clipboard
                /\ cstring' = CString_drop(c)
                /\ lastError' = o.lastError
                /\ UNCHANGED heap
                /\ ret' = set_clipboard_text_result(o.result, o.lastError)
                /\ trace' = <<Call("SDL_SetClipboardText", NULL, o.result)>>
                            \o (IF ~o.result
                                THEN <<Call("SDL_GetError", NULL, TRUE)>>
                                ELSE <<>>)
                /\ lastSet' = IF o.result
                              THEN [valid |-> TRUE, text |-> text]
                              ELSE NoSet

\* clipboard_text_body that returns the text without calling SDL_free.
clipboard_text_body_no_free(o) ==
    IF o.buf = NULL
    THEN [ret   |-> Err(get_error(o.lastError)),
          trace |-> <<Call("SDL_GetClipboardText", NULL, FALSE),
                      Call("SDL_GetError", NULL, TRUE)>>,
          held  |-> {}]
    ELSE LET s == to_str(CStr_from_ptr(o.bytes))
         IN  [ret   |-> IF s.ok THEN Ok(s.str, FALSE) ELSE Panic,
              trace |-> <<Call("SDL_GetClipboardText", o.buf, TRUE),
                          Call("CStr::from_ptr", o.buf, TRUE)>>,
              held  |-> {o.buf}]

\* clipboard_text_body that calls SDL_GetClipboardText a second time when the
\* first call returned NULL.
clipboard_text_body_retrying(o) ==
    IF o.buf = NULL
    THEN [ret   |-> Err(get_error(o.lastError)),
          trace |-> <<Call("SDL_GetClipboardText", NULL, FALSE),
                      Call("SDL_GetClipboardText", NULL, FALSE),
                      Call("SDL_GetError", NULL, TRUE)>>,
          held  |-> {}]
    ELSE LET s == to_str(CStr_from_ptr(o.bytes))
         IN  [ret   |-> IF s.ok THEN Ok(s.str, FALSE) ELSE Panic,
              trace |-> <<Call("SDL_GetClipboardText", o.buf, TRUE),
                          Call("CStr::from_ptr", o.buf, TRUE)>>
                        \o (IF s.ok THEN <<Call("SDL_free", o.buf, TRUE)>> ELSE <<>>),
              held  |-> IF s.ok THEN {} ELSE {o.buf}]

\* clipboard_text_body that calls SDL_free on the NULL path as well.
clipboard_text_body_free_always(o) ==
    LET s == to_str(CStr_from_ptr(Append(o.bytes, 0)))
    IN  [ret   |-> IF o.buf = NULL THEN Err(get_error(o.lastError))
                   ELSE IF s.ok THEN Ok(s.str, FALSE) ELSE Panic,
         trace |-> <<Call("SDL_GetClipboardText", o.buf, o.buf # NULL)>>
                   \o (IF o.buf # NULL THEN <<Call("CStr::from_ptr", o.buf, TRUE)>> ELSE <<>>)
                   \o (IF o.buf = NULL \/ s.ok THEN <<Call("SDL_free", o.buf, TRUE)>> ELSE <<>>)
                   \o (IF o.buf = NULL THEN <<Call("SDL_GetError", NULL, TRUE)>> ELSE <<>>),
         held  |-> IF o.buf # NULL /\ ~s.ok THEN {o.buf} ELSE {}]

\* clipboard_text, lines 50-58, after SDL_GetClipboardText returned o: what
\* it returns, the external calls it makes, and whether buf is still
\* allocated when it ends.
clipboard_text_body(o) ==
    IF o.buf = NULL
    THEN [ret   |-> Err(get_error(o.lastError)),
          trace |-> <<Call("SDL_GetClipboardText", NULL, FALSE),
                      Call("SDL_GetError", NULL, TRUE)>>,
          held  |-> {}]
    ELSE LET s == to_str(CStr_from_ptr(o.bytes))
         IN  IF ~s.ok
             THEN \* to_str().unwrap() panics; buf is a raw pointer, nothing frees it
                  [ret   |-> Panic,
                   trace |-> <<Call("SDL_GetClipboardText", o.buf, TRUE),
                               Call("CStr::from_ptr", o.buf, TRUE)>>,
                   held  |-> {o.buf}]
             ELSE [ret   |-> Ok(s.str, FALSE),
                   trace |-> <<Call("SDL_GetClipboardText", o.buf, TRUE),
                               Call("CStr::from_ptr", o.buf, TRUE),
                               Call("SDL_free", o.buf, TRUE)>>,
                   held  |-> {}]

\* ClipboardUtil::clipboard_text
clipboard_text ==
    /\ op' = [name |-> "clipboard_text", text |-> NoText]
    /\ UNCHANGED <<clipboard, lastSet, everSet, cstring, threads>>
    /\ \E o \in SDL_GetClipboardText :
        LET r == clipboard_text_body(o)
        IN  /\ lastError' = o.lastError
            /\ ret' = r.ret
            /\ trace' = r.trace
            /\ heap' = heap \cup r.held

\* has_clipboard_text that returns the negation of what SDL reports.
has_clipboard_text_negated ==
    /\ op' = [name |-> "has_clipboard_text", text |-> NoText]
    /\ ret' = Ok(NoText, ~SDL_HasClipboardText)
    /\ trace' = <<Call("SDL_HasClipboardText", NULL, SDL_HasClipboardText)>>
    /\ UNCHANGED <<clipboard, lastError, heap, lastSet, everSet, cstring, threads>>

\* ClipboardUtil::has_clipboard_text
has_clipboard_text ==
    /\ op' = [name |-> "has_clipboard_text", text |-> NoText]
    /\ ret' = Ok(NoText, SDL_HasClipboardText)
    /\ trace' = <<Call("SDL_HasClipboardText", NULL, SDL_HasClipboardText)>>
    /\ UNCHANGED <<clipboard, lastError, heap, lastSet, everSet, cstring, threads>>

\* Another program (or another part of this one) replaces the clipboard text.
ForeignWrite(text) ==
    /\ clipboard' = text
    /\ lastSet' = NoSet
    /\ op' = [name |-> "foreign", text |-> text]
    /\ ret' = NoReturn
    /\ trace' = <<>>
    /\ UNCHANGED <<lastError, heap, everSet, cstring, threads>>

ClipInit ==
    /\ clipboard = <<>>
    /\ lastError = ""
    /\ heap = {}
    /\ op = [name |-> "init", text |-> NoText]
    /\ ret = NoReturn
    /\ trace = <<>>
    /\ lastSet = NoSet
    /\ everSet = FALSE
    /\ cstring = NoCString
    /\ threads = [t \in Threads |-> Idle]

\* ------------------------------------------------------------------ concurrent callers

\* The clipboard functions called from several threads at once.  A call into
\* SDL is one step; between two calls into SDL of one clipboard_text the
\* other callers can run.  The buffers SDL_GetClipboardText handed out are
\* in heap until they are freed; what a buffer holds is the clipboard text of
\* the moment it was handed out.

\* What the sequential caller's last operation was, made and returned, and
\* the error message SDL keeps for its thread: the concurrent callers leave
\* them alone.
callVars == <<op, ret, trace, lastError>>

\* The other variables of the clipboard, which a concurrent clipboard_text or
\* has_clipboard_text leaves alone.
seqVars == <<callVars, lastSet, everSet, cstring>>

\* set_clipboard_text between SDL_SetClipboardText and its return: the
\* CString is alive.
CString_held(c) == [bytes |-> c.bytes, fate |-> "held"]

\* own_buf with `buf` kept in a static all callers share: a caller that was
\* given a buffer uses the one handed out last, to whichever caller.
last_buf(self) ==
    IF threads[self].buf = NULL \/ heap = {} THEN threads[self].buf
    ELSE CHOOSE p \in heap : \A q \in heap : q <= p

\* clipboard_text, lines 50-56: `buf` is a local of the call.
own_buf(self) == threads[self].buf

\* clipboard_text, line 50: let buf = SDL_GetClipboardText();
clipboard_text_get(self) ==
    /\ threads[self].pc = "idle"
    /\ \E o \in SDL_GetClipboardText :
          /\ threads' = [threads EXCEPT ![self] =
                            [@ EXCEPT !.pc = "got", !.buf = o.buf, !.s = o.bytes,
                                      !.err = IF o.buf = NULL THEN o.lastError ELSE @,
                                      !.ret = NoReturn]]
          /\ heap' = IF o.buf = NULL THEN heap ELSE heap \cup {o.buf}
    /\ UNCHANGED <<clipboard, seqVars>>

\* clipboard_text, lines 52-53: buf is NULL, Err(get_error()).
clipboard_text_null(self) ==
    /\ threads[self].pc = "got"
    /\ own_buf(self) = NULL
    /\ threads' = [threads EXCEPT ![self] =
                      [@ EXCEPT !.pc = "idle", !.ret = Err(get_error(threads[self].err))]]
    /\ UNCHANGED <<clipboard, heap, seqVars>>

\* clipboard_text, line 55: the text is copied out of buf; unwrap() panics,
\* and leaves buf allocated, when it is not valid UTF-8.
clipboard_text_read(self) ==
    /\ threads[self].pc = "got"
    /\ own_buf(self) # NULL
    /\ LET r == to_str(CStr_from_ptr(threads[self].s))
           bad == own_buf(self) \notin heap
       IN  threads' = [threads EXCEPT ![self] =
                          IF r.ok
                          THEN [@ EXCEPT !.pc = "read", !.s = r.str, !.fault = @ \/ bad]
                          ELSE [@ EXCEPT !.pc = "idle", !.buf = NULL, !.s = NoText,
                                         !.ret = Panic, !.fault = @ \/ bad]]
    /\ UNCHANGED <<clipboard, heap, seqVars>>

\* clipboard_text, lines 56-57: SDL_free(buf); Ok(s)
clipboard_text_free(self) ==
    /\ threads[self].pc = "read"
    /\ threads' = [threads EXCEPT ![self] =
                      [@ EXCEPT !.pc = "idle", !.buf = NULL, !.s = NoText,
                                !.ret = Ok(threads[self].s, FALSE),
                                !.fault = @ \/ own_buf(self) \notin heap]]
    /\ heap' = heap \ {own_buf(self)}
    /\ UNCHANGED <<clipboard, seqVars>>

\* The callers after self has made a CString in set_clipboard_text: next is
\* what becomes of self, and the CString of no other caller is the one made
\* last any more.
MadeCString(self, next) ==
    [NotLatest EXCEPT ![self] = next]

\* set_clipboard_text called by one of the concurrent callers, lines 36-39
\* (and 44 when SDL_SetClipboardText returns true): the call writes the
\* clipboard as the sequential caller's does.  When SDL_SetClipboardText
\* returns false the caller has yet to call SDL_GetError, and keeps its
\* CString until it returns.
concurrent_set_clipboard_text(self, text) ==
    /\ threads[self].pc = "idle"
    /\ everSet' = TRUE
    /\ LET c == CString_new(text)
       IN  IF ~c.ok
           THEN /\ threads' = MadeCString(self, [threads[self] EXCEPT !.ret = Panic])
                /\ cstring' = NoCString
                /\ UNCHANGED <<clipboard, lastSet>>
           ELSE \E o \in SDL_SetClipboardText(c.bytes) :
                /\ clipboard' = o.clipboard
                /\ lastSet' = IF o.result
                              THEN [valid |-> TRUE, text |-> text]
                              ELSE NoSet
                /\ IF o.result
                   THEN /\ cstring' = CString_drop(c)
                        /\ threads' = MadeCString(self,
                               [threads[self] EXCEPT !.ret = set_clipboard_text_result(
                                                                 TRUE, threads[self].err)])
                   ELSE /\ cstring' = CString_held(c)
                        /\ threads' = MadeCString(self,
                               [threads[self] EXCEPT !.pc = "failed", !.text = c.bytes,
                                                     !.latest = TRUE,
                                                     !.err = o.lastError,
                                                     !.ret = NoReturn])
    /\ UNCHANGED <<heap, callVars>>

\* set_clipboard_text, lines 40-44, after SDL_SetClipboardText returned
\* false: Err(get_error()), and the caller's own CString is dropped, which
\* is the one cstring describes when no set_clipboard_text made one since.
concurrent_set_clipboard_text_failed(self) ==
    /\ threads[self].pc = "failed"
    /\ threads' = [threads EXCEPT ![self] =
                      [@ EXCEPT !.pc = "idle", !.text = NoText, !.latest = FALSE,
                                !.ret = set_clipboard_text_result(
                                            FALSE, threads[self].err)]]
    /\ cstring' = IF threads[self].latest /\ cstring.fate = "held"
                  THEN CString_drop(cstring)
                  ELSE cstring
    /\ UNCHANGED <<clipboard, heap, lastSet, everSet, callVars>>

\* has_clipboard_text called by one of the concurrent callers.
concurrent_has_clipboard_text(self) ==
    /\ threads[self].pc = "idle"
    /\ threads' = [threads EXCEPT ![self].ret = Ok(NoText, SDL_HasClipboardText)]
    /\ UNCHANGED <<clipboard, heap, seqVars>>

\* ------------------------------------------------------------------ GPU values

\* Setter calls made on one descriptor before it is handed to SDL.
MaxCalls == 3

\* Resources dropped in one run.
MaxDropped == 2

\* An f32 is m * 2^e with 2^23 <= m < 2^24, or zero.
F32(m, e) == [m |-> m, e |-> e]
F32Zero == F32(0, 0)
F32One == F32(2^23, -23)

\* SDL_FColor::default()
SDL_FColor_default == [r |-> F32Zero, g |-> F32Zero, b |-> F32Zero, a |-> F32Zero]

\* `c as f32` for a u8: the float with the same integral value (exact); floats
\* with an integral value below 2^24 are written as that integer.
as_f32(c) == c

\* Binary long division: shifts in quotient bits until the quotient has 24.
RECURSIVE f32_div_bits(_, _, _, _)
f32_div_bits(q, r, y, k) ==
    IF q >= 2^23 THEN [q |-> q, r |-> r, k |-> k]
    ELSE IF 2 * r >= y
         THEN f32_div_bits(2 * q + 1, 2 * r - y, y, k + 1)
         ELSE f32_div_bits(2 * q, 2 * r, y, k + 1)

\* f32 division x / y of two integral floats, 0 <= x, 0 < y: the quotient
\* rounded to the nearest f32, ties to even (IEEE 754 binary32).
f32_div(x, y) ==
    IF x = 0 THEN F32Zero
    ELSE LET t == f32_div_bits(x \div y, x % y, y, 0)
             up == 2 * t.r > y \/ (2 * t.r = y /\ t.q % 2 = 1)
             m == IF up THEN t.q + 1 ELSE t.q
         IN  IF m = 2^24 THEN F32(2^23, 1 - t.k) ELSE F32(m, 0 - t.k)

\* A usize is hi * 2^32 + lo.
USize(hi, lo) == [hi |-> hi, lo |-> lo]

\* `n as u32` for a usize: the low 32 bits.
usize_as_u32(n) == n.lo

\* A resource the descriptors refer to: a Texture, Buffer, TransferBuffer or
\* Sampler (raw is its SDL handle), or a slice of descriptions (raw is its
\* base pointer, len its length).
Resource(kind, raw, n) == [kind |-> kind, raw |-> raw, len |-> n]

Resources ==
    {Resource("Texture", 1, USize(0, 0)),
     Resource("Texture", 2, USize(0, 0)),
     Resource("Buffer", 3, USize(0, 0)),
     Resource("TransferBuffer", 4, USize(0, 0)),
     Resource("Sampler", 5, USize(0, 0)),
     Resource("[VertexBufferDescription]", 6, USize(0, 0)),
     Resource("[VertexBufferDescription]", 7, USize(0, 2)),
     Resource("[VertexBufferDescription]", 8, USize(1, 1)),
     Resource("[VertexAttribute]", 9, USize(0, 0)),
     Resource("[VertexAttribute]", 10, USize(0, 2)),
     Resource("[VertexAttribute]", 11, USize(1, 1)),
     Resource("[ColorTargetDescription]", 12, USize(0, 0)),
     Resource("[ColorTargetDescription]", 13, USize(0, 2)),
     Resource("[ColorTargetDescription]", 14, USize(1, 1))}

\* The resources of a kind a reference can be taken of.
Live(kind) == {r \in alive : r.kind = kind}

\* Texture::ll, Buffer::ll, TransferBuffer::ll, Sampler::ll: the raw SDL handle.
ll(resource) == resource.raw

\* <[T]>::as_ptr: the base pointer (not null, also for an empty slice).
as_ptr(slice) == slice.raw

\* <[T]>::len
len(slice) == slice.len

\* The last variant's number of each enum of gpu/enums.rs (SDL_gpu.h).
EnumLast(enum) ==
    CASE enum = "TextureType" -> 4
      [] enum = "SampleCount" -> 3
      [] enum = "Filter" -> 1
      [] enum = "SamplerMipmapMode" -> 1
      [] enum = "SamplerAddressMode" -> 2
      [] enum = "CompareOp" -> 8
      [] enum = "VertexInputRate" -> 1
      [] enum = "FillMode" -> 1
      [] enum = "CullMode" -> 2
      [] enum = "FrontFace" -> 1
      [] enum = "StencilOp" -> 8
      [] enum = "BlendFactor" -> 13
      [] enum = "BlendOp" -> 5
      [] enum = "VertexElementFormat" -> 30

\* A variant of a wrapper enum: disc is its discriminant.
Variant(enum, disc) == [enum |-> enum, disc |-> disc]

\* as_i32 that gives 1 for every variant after the second.
as_i32_saturating(variant) == IF variant.disc > 1 THEN 1 ELSE variant.disc

\* `variant as i32`, `variant as u32`: the discriminant.
as_i32(variant) == variant.disc
as_u32(variant) == variant.disc

\* std::mem::transmute of a u32 into the SDL enum: the same bits.
transmute(bits) == bits

\* The arguments the setters are called with.
U32Inputs == {0, 7}
U8Inputs == {0, 255}
F32Inputs == {F32Zero, F32One}
LoadOpInputs == 0..2
StoreOpInputs == 0..3
TextureFormatInputs == 0..2
FlagsInputs == {<<0>>, <<3>>}
EnumInputs(enum) == {Variant(enum, i) : i \in {0, 1, EnumLast(enum)}}
ColorInputs ==
    {[r |-> 0, g |-> 0, b |-> 0, a |-> 0], [r |-> 255, g |-> 128, b |-> 1, a |-> 255]}

\* No descriptor: before the first new(), and after the descriptor was consumed.
NoDescriptor == [ty |-> "none", inner |-> <<>>, marker |-> {}]

\* A resource is dropped.  The borrow checker allows it only when no live
\* descriptor's lifetime 'a is bound to a reference to it.
Drop(r) ==
    /\ r \in alive
    /\ r \notin d.marker
    /\ Cardinality(Resources \ alive) < MaxDropped
    /\ alive' = alive \ {r}
    /\ call' = [step |-> "drop", fn |-> r.kind, named |-> "", kind |-> "", arg |-> r]
    /\ UNCHANGED <<d, ncalls>>

\* The descriptor is handed to SDL by value and is gone.
Consume ==
    /\ d.ty # "none"
    /\ d' = NoDescriptor
    /\ call' = [step |-> "consume", fn |-> d.ty, named |-> "", kind |-> "", arg |-> 0]
    /\ ncalls' = 0
    /\ UNCHANGED alive

\* ------------------------------------------------------------------ info_struct.rs

\* DepthStencilTargetInfo::new: Default::default(), the zeroed SDL_GPUDepthStencilTargetInfo, its lifetime 'a unbound.
DepthStencilTargetInfo_new ==
    [ty |-> "DepthStencilTargetInfo",
     inner |-> [texture |-> NULL,
               clear_depth |-> F32Zero,
               load_op |-> 0,
               store_op |-> 0,
               stencil_load_op |-> 0,
               stencil_store_op |-> 0,
               cycle |-> FALSE,
               clear_stencil |-> 0,
               padding1 |-> 0,
               padding2 |-> 0],
     marker |-> {}]

\* DepthStencilTargetInfo::with_texture
DepthStencilTargetInfo_with_texture(self, texture) ==
    [self EXCEPT !.inner.texture = ll(texture),
                 !.marker = @ \cup {texture}]

\* DepthStencilTargetInfo::with_clear_depth
DepthStencilTargetInfo_with_clear_depth(self, clear_depth) ==
    [self EXCEPT !.inner.clear_depth = clear_depth]

\* DepthStencilTargetInfo::with_load_op
DepthStencilTargetInfo_with_load_op(self, load_op) ==
    [self EXCEPT !.inner.load_op = load_op]

\* DepthStencilTargetInfo::with_store_op
DepthStencilTargetInfo_with_store_op(self, store_op) ==
    [self EXCEPT !.inner.store_op = store_op]

\* DepthStencilTargetInfo::with_stencil_load_op
DepthStencilTargetInfo_with_stencil_load_op(self, stencil_load_op) ==
    [self EXCEPT !.inner.stencil_load_op = stencil_load_op]

\* DepthStencilTargetInfo::with_stencil_store_op
DepthStencilTargetInfo_with_stencil_store_op(self, stencil_store_op) ==
    [self EXCEPT !.inner.stencil_store_op = stencil_store_op]

\* DepthStencilTargetInfo::with_cycle
DepthStencilTargetInfo_with_cycle(self, cycle) ==
    [self EXCEPT !.inner.cycle = cycle]

\* DepthStencilTargetInfo::with_clear_stencil
DepthStencilTargetInfo_with_clear_stencil(self, clear_stencil) ==
    [self EXCEPT !.inner.clear_stencil = clear_stencil]

\* ColorTargetInfo::new: Default::default(), the zeroed SDL_GPUColorTargetInfo, its lifetime 'a unbound.
ColorTargetInfo_new ==
    [ty |-> "ColorTargetInfo",
     inner |-> [texture |-> NULL,
               mip_level |-> 0,
               layer_or_depth_plane |-> 0,
               clear_color |-> SDL_FColor_default,
               load_op |-> 0,
               store_op |-> 0,
               resolve_texture |-> NULL,
               resolve_mip_level |-> 0,
               resolve_layer |-> 0,
               cycle |-> FALSE,
               cycle_resolve_texture |-> FALSE,
               padding1 |-> 0,
               padding2 |-> 0],
     marker |-> {}]

\* ColorTargetInfo::with_texture
ColorTargetInfo_with_texture(self, texture) ==
    [self EXCEPT !.inner.texture = ll(texture),
                 !.marker = @ \cup {texture}]

\* ColorTargetInfo::with_mip_level
ColorTargetInfo_with_mip_level(self, mip_level) ==
    [self EXCEPT !.inner.mip_level = mip_level]

\* ColorTargetInfo::with_layer_or_depth_plane
ColorTargetInfo_with_layer_or_depth_plane(self, layer_or_depth_plane) ==
    [self EXCEPT !.inner.layer_or_depth_plane = layer_or_depth_plane]

\* with_clear_color that divides by 256.
ColorTargetInfo_with_clear_color_by_256(self, clear_color) ==
    [self EXCEPT !.inner.clear_color.r = f32_div(as_f32(clear_color.r), 256),
                 !.inner.clear_color.g = f32_div(as_f32(clear_color.g), 256),
                 !.inner.clear_color.b = f32_div(as_f32(clear_color.b), 256),
                 !.inner.clear_color.a = f32_div(as_f32(clear_color.a), 256)]

\* ColorTargetInfo::with_clear_color
ColorTargetInfo_with_clear_color(self, clear_color) ==
    [self EXCEPT !.inner.clear_color.r = f32_div(as_f32(clear_color.r), 255),
                 !.inner.clear_color.g = f32_div(as_f32(clear_color.g), 255),
                 !.inner.clear_color.b = f32_div(as_f32(clear_color.b), 255),
                 !.inner.clear_color.a = f32_div(as_f32(clear_color.a), 255)]

\* ColorTargetInfo::with_load_op
ColorTargetInfo_with_load_op(self, load_op) ==
    [self EXCEPT !.inner.load_op = load_op]

\* with_store_op that refuses RESOLVE and RESOLVE_AND_STORE while no resolve
\* texture is set.
ColorTargetInfo_with_store_op_validating(self, store_op) ==
    IF store_op \in {2, 3} /\ self.inner.resolve_texture = NULL
    THEN self
    ELSE [self EXCEPT !.inner.store_op = store_op]

\* ColorTargetInfo::with_store_op
ColorTargetInfo_with_store_op(self, store_op) ==
    [self EXCEPT !.inner.store_op = store_op]

\* with_resolve_texture that writes the texture field.
ColorTargetInfo_with_resolve_texture_into_texture(self, resolve_texture) ==
    [self EXCEPT !.inner.texture = ll(resolve_texture),
                 !.marker = @ \cup {resolve_texture}]

\* ColorTargetInfo::with_resolve_texture
ColorTargetInfo_with_resolve_texture(self, resolve_texture) ==
    [self EXCEPT !.inner.resolve_texture = ll(resolve_texture),
                 !.marker = @ \cup {resolve_texture}]

\* ColorTargetInfo::with_resolve_mip_level
ColorTargetInfo_with_resolve_mip_level(self, resolve_mip_level) ==
    [self EXCEPT !.inner.resolve_mip_level = resolve_mip_level]

\* ColorTargetInfo::with_resolve_layer
ColorTargetInfo_with_resolve_layer(self, resolve_layer) ==
    [self EXCEPT !.inner.resolve_layer = resolve_layer]

\* with_cycle that writes cycle_resolve_texture as well.
ColorTargetInfo_with_cycle_clobbering(self, cycle) ==
    [self EXCEPT !.inner.cycle = cycle,
                 !.inner.cycle_resolve_texture = cycle]

\* ColorTargetInfo::with_cycle
ColorTargetInfo_with_cycle(self, cycle) ==
    [self EXCEPT !.inner.cycle = cycle]

\* ColorTargetInfo::with_cycle_resolve_texture
ColorTargetInfo_with_cycle_resolve_texture(self, cycle_resolve_texture) ==
    [self EXCEPT !.inner.cycle_resolve_texture = cycle_resolve_texture]

\* TextureCreateInfo::new: Default::default(), the zeroed SDL_GPUTextureCreateInfo, its lifetime 'a unbound.
TextureCreateInfo_new ==
    [ty |-> "TextureCreateInfo",
     inner |-> [type |-> 0,
               format |-> 0,
               usage |-> 0,
               width |-> 0,
               height |-> 0,
               layer_count_or_depth |-> 0,
               num_levels |-> 0,
               sample_count |-> 0,
               props |-> 0],
     marker |-> {}]

\* TextureCreateInfo::with_type
TextureCreateInfo_with_type(self, type) ==
    [self EXCEPT !.inner.type = as_i32(type)]

\* TextureCreateInfo::with_format
TextureCreateInfo_with_format(self, format) ==
    [self EXCEPT !.inner.format = format]

\* TextureCreateInfo::with_usage
TextureCreateInfo_with_usage(self, usage) ==
    [self EXCEPT !.inner.usage = usage[1]]

\* TextureCreateInfo::with_width
TextureCreateInfo_with_width(self, width) ==
    [self EXCEPT !.inner.width = width]

\* TextureCreateInfo::with_height
TextureCreateInfo_with_height(self, height) ==
    [self EXCEPT !.inner.height = height]

\* TextureCreateInfo::with_layer_count_or_depth
TextureCreateInfo_with_layer_count_or_depth(self, layer_count_or_depth) ==
    [self EXCEPT !.inner.layer_count_or_depth = layer_count_or_depth]

\* TextureCreateInfo::with_num_levels
TextureCreateInfo_with_num_levels(self, num_levels) ==
    [self EXCEPT !.inner.num_levels = num_levels]

\* TextureCreateInfo::with_sample_count
TextureCreateInfo_with_sample_count(self, sample_count) ==
    [self EXCEPT !.inner.sample_count = as_i32(sample_count)]

\* SamplerCreateInfo::new: Default::default(), the zeroed SDL_GPUSamplerCreateInfo, its lifetime 'a unbound.
SamplerCreateInfo_new ==
    [ty |-> "SamplerCreateInfo",
     inner |-> [min_filter |-> 0,
               mag_filter |-> 0,
               mipmap_mode |-> 0,
               address_mode_u |-> 0,
               address_mode_v |-> 0,
               address_mode_w |-> 0,
               mip_lod_bias |-> F32Zero,
               max_anisotropy |-> F32Zero,
               compare_op |-> 0,
               min_lod |-> F32Zero,
               max_lod |-> F32Zero,
               enable_anisotropy |-> FALSE,
               enable_compare |-> FALSE,
               padding1 |-> 0,
               padding2 |-> 0,
               props |-> 0],
     marker |-> {}]

\* SamplerCreateInfo::with_min_filter
SamplerCreateInfo_with_min_filter(self, filter) ==
    [self EXCEPT !.inner.min_filter = as_i32(filter)]

\* SamplerCreateInfo::with_mag_filter
SamplerCreateInfo_with_mag_filter(self, filter) ==
    [self EXCEPT !.inner.mag_filter = as_i32(filter)]

\* SamplerCreateInfo::with_mipmap_mode
SamplerCreateInfo_with_mipmap_mode(self, mode) ==
    [self EXCEPT !.inner.mipmap_mode = as_i32(mode)]

\* SamplerCreateInfo::with_address_mode_u
SamplerCreateInfo_with_address_mode_u(self, mode) ==
    [self EXCEPT !.inner.address_mode_u = as_i32(mode)]

\* SamplerCreateInfo::with_address_mode_v
SamplerCreateInfo_with_address_mode_v(self, mode) ==
    [self EXCEPT !.inner.address_mode_v = as_i32(mode)]

\* SamplerCreateInfo::with_address_mode_w
SamplerCreateInfo_with_address_mode_w(self, mode) ==
    [self EXCEPT !.inner.address_mode_w = as_i32(mode)]

\* SamplerCreateInfo::with_mip_lod_bias
SamplerCreateInfo_with_mip_lod_bias(self, mip_lod_bias) ==
    [self EXCEPT !.inner.mip_lod_bias = mip_lod_bias]

\* SamplerCreateInfo::with_max_anisotropy
SamplerCreateInfo_with_max_anisotropy(self, max_anisotropy) ==
    [self EXCEPT !.inner.max_anisotropy = max_anisotropy]

\* SamplerCreateInfo::with_compare_op
SamplerCreateInfo_with_compare_op(self, compare_op) ==
    [self EXCEPT !.inner.compare_op = as_i32(compare_op)]

\* SamplerCreateInfo::with_min_lod
SamplerCreateInfo_with_min_lod(self, min_lod) ==
    [self EXCEPT !.inner.min_lod = min_lod]

\* SamplerCreateInfo::with_max_lod
SamplerCreateInfo_with_max_lod(self, max_lod) ==
    [self EXCEPT !.inner.max_lod = max_lod]

\* SamplerCreateInfo::with_enable_anisotropy
SamplerCreateInfo_with_enable_anisotropy(self, enable_anisotropy) ==
    [self EXCEPT !.inner.enable_anisotropy = enable_anisotropy]

\* SamplerCreateInfo::with_enable_compare
SamplerCreateInfo_with_enable_compare(self, enable_compare) ==
    [self EXCEPT !.inner.enable_compare = enable_compare]

\* TextureRegion::new: Default::default(), the zeroed SDL_GPUTextureRegion, its lifetime 'a unbound.
TextureRegion_new ==
    [ty |-> "TextureRegion",
     inner |-> [texture |-> NULL,
               mip_level |-> 0,
               layer |-> 0,
               x |-> 0,
               y |-> 0,
               z |-> 0,
               w |-> 0,
               h |-> 0,
               d |-> 0],
     marker |-> {}]

\* TextureRegion::with_texture
TextureRegion_with_texture(self, texture) ==
    [self EXCEPT !.inner.texture = ll(texture),
                 !.marker = @ \cup {texture}]

\* TextureRegion::with_mip_level
TextureRegion_with_mip_level(self, mip_level) ==
    [self EXCEPT !.inner.mip_level = mip_level]

\* TextureRegion::with_layer
TextureRegion_with_layer(self, layer) ==
    [self EXCEPT !.inner.layer = layer]

\* with_x that moves the region by x from where it was.
TextureRegion_with_x_relative(self, x) ==
    [self EXCEPT !.inner.x = @ + x]

\* TextureRegion::with_x
TextureRegion_with_x(self, x) ==
    [self EXCEPT !.inner.x = x]

\* TextureRegion::with_y
TextureRegion_with_y(self, y) ==
    [self EXCEPT !.inner.y = y]

\* TextureRegion::with_z
TextureRegion_with_z(self, z) ==
    [self EXCEPT !.inner.z = z]

\* TextureRegion::with_width
TextureRegion_with_width(self, width) ==
    [self EXCEPT !.inner.w = width]

\* TextureRegion::with_height
TextureRegion_with_height(self, height) ==
    [self EXCEPT !.inner.h = height]

\* TextureRegion::with_depth
TextureRegion_with_depth(self, depth) ==
    [self EXCEPT !.inner.d = depth]

\* TextureTransferInfo::new: Default::default(), the zeroed SDL_GPUTextureTransferInfo, its lifetime 'a unbound.
TextureTransferInfo_new ==
    [ty |-> "TextureTransferInfo",
     inner |-> [transfer_buffer |-> NULL,
               offset |-> 0,
               pixels_per_row |-> 0,
               rows_per_layer |-> 0],
     marker |-> {}]

\* TextureTransferInfo::with_transfer_buffer
TextureTransferInfo_with_transfer_buffer(self, buffer) ==
    [self EXCEPT !.inner.transfer_buffer = ll(buffer),
                 !.marker = @ \cup {buffer}]

\* TextureTransferInfo::with_offset
TextureTransferInfo_with_offset(self, offset) ==
    [self EXCEPT !.inner.offset = offset]

\* TextureTransferInfo::with_pixels_per_row
TextureTransferInfo_with_pixels_per_row(self, pixels_per_row) ==
    [self EXCEPT !.inner.pixels_per_row = pixels_per_row]

\* TextureTransferInfo::with_rows_per_layer
TextureTransferInfo_with_rows_per_layer(self, rows_per_layer) ==
    [self EXCEPT !.inner.rows_per_layer = rows_per_layer]

\* BufferBinding::new that leaves offset uninitialised (here: 7).
BufferBinding_new_uninit ==
    [ty |-> "BufferBinding",
     inner |-> [buffer |-> NULL,
               offset |-> 7],
     marker |-> {}]

\* BufferBinding::new: Default::default(), the zeroed SDL_GPUBufferBinding, its lifetime 'a unbound.
BufferBinding_new ==
    [ty |-> "BufferBinding",
     inner |-> [buffer |-> NULL,
               offset |-> 0],
     marker |-> {}]

\* BufferBinding::with_buffer
BufferBinding_with_buffer(self, buffer) ==
    [self EXCEPT !.inner.buffer = ll(buffer),
                 !.marker = @ \cup {buffer}]

\* BufferBinding::with_offset
BufferBinding_with_offset(self, offset) ==
    [self EXCEPT !.inner.offset = offset]

\* TransferBufferLocation::new: Default::default(), the zeroed SDL_GPUTransferBufferLocation, its lifetime 'a unbound.
TransferBufferLocation_new ==
    [ty |-> "TransferBufferLocation",
     inner |-> [transfer_buffer |-> NULL,
               offset |-> 0],
     marker |-> {}]

\* TransferBufferLocation::with_transfer_buffer
TransferBufferLocation_with_transfer_buffer(self, transfer_buffer) ==
    [self EXCEPT !.inner.transfer_buffer = ll(transfer_buffer),
                 !.marker = @ \cup {transfer_buffer}]

\* TransferBufferLocation::with_offset
TransferBufferLocation_with_offset(self, offset) ==
    [self EXCEPT !.inner.offset = offset]

\* BufferLocation::new: Default::default(), the zeroed SDL_GPUBufferLocation, its lifetime 'a unbound.
BufferLocation_new ==
    [ty |-> "BufferLocation",
     inner |-> [buffer |-> NULL,
               offset |-> 0],
     marker |-> {}]

\* BufferLocation::with_buffer
BufferLocation_with_buffer(self, buffer) ==
    [self EXCEPT !.inner.buffer = ll(buffer),
                 !.marker = @ \cup {buffer}]

\* BufferLocation::with_offset
BufferLocation_with_offset(self, offset) ==
    [self EXCEPT !.inner.offset = offset]

\* BufferRegion::new: Default::default(), the zeroed SDL_GPUBufferRegion, its lifetime 'a unbound.
BufferRegion_new ==
    [ty |-> "BufferRegion",
     inner |-> [buffer |-> NULL,
               offset |-> 0,
               size |-> 0],
     marker |-> {}]

\* BufferRegion::with_buffer
BufferRegion_with_buffer(self, buffer) ==
    [self EXCEPT !.inner.buffer = ll(buffer),
                 !.marker = @ \cup {buffer}]

\* BufferRegion::with_offset
BufferRegion_with_offset(self, offset) ==
    [self EXCEPT !.inner.offset = offset]

\* BufferRegion::with_size
BufferRegion_with_size(self, size) ==
    [self EXCEPT !.inner.size = size]

\* VertexBufferDescription::new: Default::default(), the zeroed SDL_GPUVertexBufferDescription, its lifetime 'a unbound.
VertexBufferDescription_new ==
    [ty |-> "VertexBufferDescription",
     inner |-> [slot |-> 0,
               pitch |-> 0,
               input_rate |-> 0,
               instance_step_rate |-> 0],
     marker |-> {}]

\* VertexBufferDescription::with_slot
VertexBufferDescription_with_slot(self, slot) ==
    [self EXCEPT !.inner.slot = slot]

\* VertexBufferDescription::with_pitch
VertexBufferDescription_with_pitch(self, pitch) ==
    [self EXCEPT !.inner.pitch = pitch]

\* with_input_rate that writes the reserved instance_step_rate as well.
VertexBufferDescription_with_input_rate_stepping(self, input_rate) ==
    [self EXCEPT !.inner.input_rate = as_i32(input_rate),
                 !.inner.instance_step_rate = as_i32(input_rate)]

\* VertexBufferDescription::with_input_rate
VertexBufferDescription_with_input_rate(self, input_rate) ==
    [self EXCEPT !.inner.input_rate = as_i32(input_rate)]

\* VertexInputState::new: Default::default(), the zeroed SDL_GPUVertexInputState, its lifetime 'a unbound.
VertexInputState_new ==
    [ty |-> "VertexInputState",
     inner |-> [vertex_buffer_descriptions |-> NULL,
               num_vertex_buffers |-> 0,
               vertex_attributes |-> NULL,
               num_vertex_attributes |-> 0],
     marker |-> {}]

\* VertexInputState::with_vertex_buffer_descriptions
VertexInputState_with_vertex_buffer_descriptions(self, vertex_buffer_descriptions) ==
    [self EXCEPT !.inner.vertex_buffer_descriptions = as_ptr(vertex_buffer_descriptions),
                 !.inner.num_vertex_buffers = usize_as_u32(len(vertex_buffer_descriptions)),
                 !.marker = @ \cup {vertex_buffer_descriptions}]

\* VertexInputState::with_vertex_attributes
VertexInputState_with_vertex_attributes(self, vertex_attributes) ==
    [self EXCEPT !.inner.vertex_attributes = as_ptr(vertex_attributes),
                 !.inner.num_vertex_attributes = usize_as_u32(len(vertex_attributes)),
                 !.marker = @ \cup {vertex_attributes}]

\* RasterizerState::new: Default::default(), the zeroed SDL_GPURasterizerState, its lifetime 'a unbound.
RasterizerState_new ==
    [ty |-> "RasterizerState",
     inner |-> [fill_mode |-> 0,
               cull_mode |-> 0,
               front_face |-> 0,
               depth_bias_constant_factor |-> F32Zero,
               depth_bias_clamp |-> F32Zero,
               depth_bias_slope_factor |-> F32Zero,
               enable_depth_bias |-> FALSE,
               enable_depth_clip |-> FALSE,
               padding1 |-> 0,
               padding2 |-> 0],
     marker |-> {}]

\* RasterizerState::with_fill_mode
RasterizerState_with_fill_mode(self, fill_mode) ==
    [self EXCEPT !.inner.fill_mode = as_i32(fill_mode)]

\* RasterizerState::with_cull_mode
RasterizerState_with_cull_mode(self, cull_mode) ==
    [self EXCEPT !.inner.cull_mode = as_i32(cull_mode)]

\* RasterizerState::with_front_face
RasterizerState_with_front_face(self, front_face) ==
    [self EXCEPT !.inner.front_face = as_i32(front_face)]

\* RasterizerState::with_depth_bias_constant_factor
RasterizerState_with_depth_bias_constant_factor(self, depth_bias_constant_factor) ==
    [self EXCEPT !.inner.depth_bias_constant_factor = depth_bias_constant_factor]

\* RasterizerState::with_depth_bias_clamp
RasterizerState_with_depth_bias_clamp(self, depth_bias_clamp) ==
    [self EXCEPT !.inner.depth_bias_clamp = depth_bias_clamp]

\* RasterizerState::with_depth_slope_factor
RasterizerState_with_depth_slope_factor(self, depth_bias_slope_factor) ==
    [self EXCEPT !.inner.depth_bias_slope_factor = depth_bias_slope_factor]

\* RasterizerState::with_enable_depth_bias
RasterizerState_with_enable_depth_bias(self, enable_depth_bias) ==
    [self EXCEPT !.inner.enable_depth_bias = enable_depth_bias]

\* RasterizerState::with_enable_depth_clip
RasterizerState_with_enable_depth_clip(self, enable_depth_clip) ==
    [self EXCEPT !.inner.enable_depth_clip = enable_depth_clip]

\* StencilOpState::new: Default::default(), the zeroed SDL_GPUStencilOpState, its lifetime 'a unbound.
StencilOpState_new ==
    [ty |-> "StencilOpState",
     inner |-> [compare_op |-> 0,
               fail_op |-> 0,
               pass_op |-> 0,
               depth_fail_op |-> 0],
     marker |-> {}]

\* StencilOpState::with_compare_op
StencilOpState_with_compare_op(self, compare_op) ==
    [self EXCEPT !.inner.compare_op = as_i32(compare_op)]

\* StencilOpState::with_fail_op
StencilOpState_with_fail_op(self, fail_op) ==
    [self EXCEPT !.inner.fail_op = as_i32(fail_op)]

\* StencilOpState::with_pass_op
StencilOpState_with_pass_op(self, pass_op) ==
    [self EXCEPT !.inner.pass_op = as_i32(pass_op)]

\* StencilOpState::with_depth_fail_op
StencilOpState_with_depth_fail_op(self, depth_fail_op) ==
    [self EXCEPT !.inner.depth_fail_op = as_i32(depth_fail_op)]

\* The StencilOpState values the setters that take one are called with.
StencilOpStateInputs ==
    {StencilOpState_new,
     StencilOpState_with_fail_op(StencilOpState_new, Variant("StencilOp", 1)),
     StencilOpState_with_compare_op(
         StencilOpState_with_pass_op(StencilOpState_new, Variant("StencilOp", 8)),
         Variant("CompareOp", 2))}

\* DepthStencilState::new: Default::default(), the zeroed SDL_GPUDepthStencilState, its lifetime 'a unbound.
DepthStencilState_new ==
    [ty |-> "DepthStencilState",
     inner |-> [compare_op |-> 0,
               back_stencil_state |-> StencilOpState_new.inner,
               front_stencil_state |-> StencilOpState_new.inner,
               compare_mask |-> 0,
               write_mask |-> 0,
               enable_depth_test |-> FALSE,
               enable_depth_write |-> FALSE,
               enable_stencil_test |-> FALSE,
               padding1 |-> 0,
               padding2 |-> 0,
               padding3 |-> 0],
     marker |-> {}]

\* DepthStencilState::with_compare_op
DepthStencilState_with_compare_op(self, compare_op) ==
    [self EXCEPT !.inner.compare_op = as_i32(compare_op)]

\* DepthStencilState::with_back_stencil_state
DepthStencilState_with_back_stencil_state(self, back_stencil_state) ==
    [self EXCEPT !.inner.back_stencil_state = back_stencil_state.inner]

\* DepthStencilState::with_front_stencil_state
DepthStencilState_with_front_stencil_state(self, front_stencil_state) ==
    [self EXCEPT !.inner.front_stencil_state = front_stencil_state.inner]

\* DepthStencilState::with_compare_mask
DepthStencilState_with_compare_mask(self, compare_mask) ==
    [self EXCEPT !.inner.compare_mask = compare_mask]

\* DepthStencilState::with_write_mask
DepthStencilState_with_write_mask(self, write_mask) ==
    [self EXCEPT !.inner.write_mask = write_mask]

\* DepthStencilState::with_enable_depth_test
DepthStencilState_with_enable_depth_test(self, enable_depth_test) ==
    [self EXCEPT !.inner.enable_depth_test = enable_depth_test]

\* DepthStencilState::with_enable_depth_write
DepthStencilState_with_enable_depth_write(self, enable_depth_write) ==
    [self EXCEPT !.inner.enable_depth_write = enable_depth_write]

\* DepthStencilState::with_enable_stencil_test
DepthStencilState_with_enable_stencil_test(self, enable_stencil_test) ==
    [self EXCEPT !.inner.enable_stencil_test = enable_stencil_test]

\* GraphicsPipelineTargetInfo::new: Default::default(), the zeroed SDL_GPUGraphicsPipelineTargetInfo, its lifetime 'a unbound.
GraphicsPipelineTargetInfo_new ==
    [ty |-> "GraphicsPipelineTargetInfo",
     inner |-> [color_target_descriptions |-> NULL,
               num_color_targets |-> 0,
               depth_stencil_format |-> 0,
               has_depth_stencil_target |-> FALSE,
               padding1 |-> 0,
               padding2 |-> 0,
               padding3 |-> 0],
     marker |-> {}]

\* GraphicsPipelineTargetInfo::with_color_target_descriptions
GraphicsPipelineTargetInfo_with_color_target_descriptions(self, color_target_descriptions) ==
    [self EXCEPT !.inner.color_target_descriptions = as_ptr(color_target_descriptions),
                 !.inner.num_color_targets = usize_as_u32(len(color_target_descriptions)),
                 !.marker = @ \cup {color_target_descriptions}]

\* GraphicsPipelineTargetInfo::with_depth_stencil_format
GraphicsPipelineTargetInfo_with_depth_stencil_format(self, depth_stencil_format) ==
    [self EXCEPT !.inner.depth_stencil_format = depth_stencil_format]

\* GraphicsPipelineTargetInfo::with_has_depth_stencil_target
GraphicsPipelineTargetInfo_with_has_depth_stencil_target(self, has_depth_stencil_target) ==
    [self EXCEPT !.inner.has_depth_stencil_target = has_depth_stencil_target]

\* VertexAttribute::new: Default::default(), the zeroed SDL_GPUVertexAttribute, its lifetime 'a unbound.
VertexAttribute_new ==
    [ty |-> "VertexAttribute",
     inner |-> [location |-> 0,
               buffer_slot |-> 0,
               format |-> 0,
               offset |-> 0],
     marker |-> {}]

\* VertexAttribute::with_location
VertexAttribute_with_location(self, location) ==
    [self EXCEPT !.inner.location = location]

\* VertexAttribute::with_buffer_slot
VertexAttribute_with_buffer_slot(self, buffer_slot) ==
    [self EXCEPT !.inner.buffer_slot = buffer_slot]

\* VertexAttribute::with_format
VertexAttribute_with_format(self, format) ==
    [self EXCEPT !.inner.format = transmute(as_u32(format))]

\* VertexAttribute::with_offset
VertexAttribute_with_offset(self, offset) ==
    [self EXCEPT !.inner.offset = offset]

\* ColorTargetBlendState::new: Default::default(), the zeroed SDL_GPUColorTargetBlendState, its lifetime 'a unbound.
ColorTargetBlendState_new ==
    [ty |-> "ColorTargetBlendState",
     inner |-> [src_color_blendfactor |-> 0,
               dst_color_blendfactor |-> 0,
               color_blend_op |-> 0,
               src_alpha_blendfactor |-> 0,
               dst_alpha_blendfactor |-> 0,
               alpha_blend_op |-> 0,
               color_write_mask |-> 0,
               enable_blend |-> FALSE,
               enable_color_write_mask |-> FALSE,
               padding1 |-> 0,
               padding2 |-> 0],
     marker |-> {}]

\* ColorTargetBlendState::with_src_color_blendfactor
ColorTargetBlendState_with_src_color_blendfactor(self, src_color_blendfactor) ==
    [self EXCEPT !.inner.src_color_blendfactor = as_i32(src_color_blendfactor)]

\* ColorTargetBlendState::with_dst_color_blendfactor
ColorTargetBlendState_with_dst_color_blendfactor(self, dst_color_blendfactor) ==
    [self EXCEPT !.inner.dst_color_blendfactor = as_i32(dst_color_blendfactor)]

\* ColorTargetBlendState::with_color_blend_op
ColorTargetBlendState_with_color_blend_op(self, color_blend_op) ==
    [self EXCEPT !.inner.color_blend_op = as_i32(color_blend_op)]

\* ColorTargetBlendState::with_src_alpha_blendfactor
ColorTargetBlendState_with_src_alpha_blendfactor(self, src_alpha_blendfactor) ==
    [self EXCEPT !.inner.src_alpha_blendfactor = as_i32(src_alpha_blendfactor)]

\* ColorTargetBlendState::with_dst_alpha_blendfactor
ColorTargetBlendState_with_dst_alpha_blendfactor(self, dst_alpha_blendfactor) ==
    [self EXCEPT !.inner.dst_alpha_blendfactor = as_i32(dst_alpha_blendfactor)]

\* ColorTargetBlendState::with_alpha_blend_op
ColorTargetBlendState_with_alpha_blend_op(self, alpha_blend_op) ==
    [self EXCEPT !.inner.alpha_blend_op = as_i32(alpha_blend_op)]

\* ColorTargetBlendState::with_color_write_mask
ColorTargetBlendState_with_color_write_mask(self, color_write_mask) ==
    [self EXCEPT !.inner.color_write_mask = color_write_mask[1]]

\* ColorTargetBlendState::with_enable_blend
ColorTargetBlendState_with_enable_blend(self, enable_blend) ==
    [self EXCEPT !.inner.enable_blend = enable_blend]

\* ColorTargetBlendState::with_enable_color_write_mask
ColorTargetBlendState_with_enable_color_write_mask(self, enable_color_write_mask) ==
    [self EXCEPT !.inner.enable_color_write_mask = enable_color_write_mask]

\* The ColorTargetBlendState values the setters that take one are called with.
ColorTargetBlendStateInputs ==
    {ColorTargetBlendState_new,
     ColorTargetBlendState_with_enable_blend(ColorTargetBlendState_new, TRUE),
     ColorTargetBlendState_with_color_blend_op(
         ColorTargetBlendState_with_color_write_mask(ColorTargetBlendState_new, <<3>>),
         Variant("BlendOp", 5))}

\* ColorTargetDescription::new: Default::default(), the zeroed SDL_GPUColorTargetDescription, its lifetime 'a unbound.
ColorTargetDescription_new ==
    [ty |-> "ColorTargetDescription",
     inner |-> [format |-> 0,
               blend_state |-> ColorTargetBlendState_new.inner],
     marker |-> {}]

\* ColorTargetDescription::with_format
ColorTargetDescription_with_format(self, format) ==
    [self EXCEPT !.inner.format = format]

\* ColorTargetDescription::with_blend_state
ColorTargetDescription_with_blend_state(self, blend_state) ==
    [self EXCEPT !.inner.blend_state = blend_state.inner]

\* TextureSamplerBinding::new: Default::default(), the zeroed SDL_GPUTextureSamplerBinding, its lifetime 'a unbound.
TextureSamplerBinding_new ==
    [ty |-> "TextureSamplerBinding",
     inner |-> [texture |-> NULL,
               sampler |-> NULL],
     marker |-> {}]

\* with_texture whose result does not borrow the texture.
TextureSamplerBinding_with_texture_unbound(self, texture) ==
    [self EXCEPT !.inner.texture = ll(texture)]

\* TextureSamplerBinding::with_texture
TextureSamplerBinding_with_texture(self, texture) ==
    [self EXCEPT !.inner.texture = ll(texture),
                 !.marker = @ \cup {texture}]

\* TextureSamplerBinding::with_sampler
TextureSamplerBinding_with_sampler(self, sampler) ==
    [self EXCEPT !.inner.sampler = ll(sampler),
                 !.marker = @ \cup {sampler}]

\* StorageTextureReadWriteBinding::new: Default::default(), the zeroed SDL_GPUStorageTextureReadWriteBinding, its lifetime 'a unbound.
StorageTextureReadWriteBinding_new ==
    [ty |-> "StorageTextureReadWriteBinding",
     inner |-> [texture |-> NULL,
               mip_level |-> 0,
               layer |-> 0,
               cycle |-> FALSE,
               padding1 |-> 0,
               padding2 |-> 0,
               padding3 |-> 0],
     marker |-> {}]

\* StorageTextureReadWriteBinding::with_texture
StorageTextureReadWriteBinding_with_texture(self, texture) ==
    [self EXCEPT !.inner.texture = ll(texture),
                 !.marker = @ \cup {texture}]

\* StorageTextureReadWriteBinding::with_mip_level
StorageTextureReadWriteBinding_with_mip_level(self, mip_level) ==
    [self EXCEPT !.inner.mip_level = mip_level]

\* StorageTextureReadWriteBinding::with_layer
StorageTextureReadWriteBinding_with_layer(self, layer) ==
    [self EXCEPT !.inner.layer = layer]

\* StorageTextureReadWriteBinding::with_cycle
StorageTextureReadWriteBinding_with_cycle(self, cycle) ==
    [self EXCEPT !.inner.cycle = cycle]

\* StorageBufferReadWriteBinding::new: Default::default(), the zeroed SDL_GPUStorageBufferReadWriteBinding, its lifetime 'a unbound.
StorageBufferReadWriteBinding_new ==
    [ty |-> "StorageBufferReadWriteBinding",
     inner |-> [buffer |-> NULL,
               cycle |-> FALSE,
               padding1 |-> 0,
               padding2 |-> 0,
               padding3 |-> 0],
     marker |-> {}]

\* StorageBufferReadWriteBinding::with_buffer
StorageBufferReadWriteBinding_with_buffer(self, buffer) ==
    [self EXCEPT !.inner.buffer = ll(buffer),
                 !.marker = @ \cup {buffer}]

\* StorageBufferReadWriteBinding::with_cycle
StorageBufferReadWriteBinding_with_cycle(self, cycle) ==
    [self EXCEPT !.inner.cycle = cycle]

\* TextureLocation::new: Default::default(), the zeroed SDL_GPUTextureLocation, its lifetime 'a unbound.
TextureLocation_new ==
    [ty |-> "TextureLocation",
     inner |-> [texture |-> NULL,
               mip_level |-> 0,
               layer |-> 0,
               x |-> 0,
               y |-> 0,
               z |-> 0],
     marker |-> {}]

\* TextureLocation::with_texture
TextureLocation_with_texture(self, texture) ==
    [self EXCEPT !.inner.texture = ll(texture),
                 !.marker = @ \cup {texture}]

\* TextureLocation::with_mip_level
TextureLocation_with_mip_level(self, mip_level) ==
    [self EXCEPT !.inner.mip_level = mip_level]

\* TextureLocation::with_layer
TextureLocation_with_layer(self, layer) ==
    [self EXCEPT !.inner.layer = layer]

\* TextureLocation::with_x
TextureLocation_with_x(self, x) ==
    [self EXCEPT !.inner.x = x]

\* TextureLocation::with_y
TextureLocation_with_y(self, y) ==
    [self EXCEPT !.inner.y = y]

\* TextureLocation::with_z
TextureLocation_with_z(self, z) ==
    [self EXCEPT !.inner.z = z]

\* ------------------------------------------------------------------ builder steps

\* A setter call on d.  fn names the setter, named is the field its name
\* stands for, kind the sort of its parameter, arg the argument.
Setter(next, fn, named, kind, arg) ==
    /\ ncalls < MaxCalls
    /\ d' = next
    /\ call' = [step |-> "setter", fn |-> fn, named |-> named, kind |-> kind, arg |-> arg]
    /\ ncalls' = ncalls + 1
    /\ UNCHANGED alive

\* A call of new().
New(desc) ==
    /\ d' = desc
    /\ call' = [step |-> "new", fn |-> desc.ty, named |-> "", kind |-> "", arg |-> 0]
    /\ ncalls' = 0
    /\ UNCHANGED alive

Descriptors ==
    {DepthStencilTargetInfo_new,
     ColorTargetInfo_new,
     TextureCreateInfo_new,
     SamplerCreateInfo_new,
     TextureRegion_new,
     TextureTransferInfo_new,
     BufferBinding_new,
     TransferBufferLocation_new,
     BufferLocation_new,
     BufferRegion_new,
     VertexBufferDescription_new,
     VertexInputState_new,
     RasterizerState_new,
     StencilOpState_new,
     DepthStencilState_new,
     GraphicsPipelineTargetInfo_new,
     VertexAttribute_new,
     ColorTargetBlendState_new,
     ColorTargetDescription_new,
     TextureSamplerBinding_new,
     StorageTextureReadWriteBinding_new,
     StorageBufferReadWriteBinding_new,
     TextureLocation_new}

DepthStencilTargetInfo_ref_step ==
    /\ d.ty = "DepthStencilTargetInfo"
    /\ UNCHANGED clipVars
    /\ \/ \E texture \in Live("Texture") :
            Setter(DepthStencilTargetInfo_with_texture(d, texture),
                   "DepthStencilTargetInfo::with_texture", "texture", "handle", texture)

DepthStencilTargetInfo_val_step ==
    /\ d.ty = "DepthStencilTargetInfo"
    /\ UNCHANGED clipVars
    /\ \/ \E clear_depth \in F32Inputs :
            Setter(DepthStencilTargetInfo_with_clear_depth(d, clear_depth),
                   "DepthStencilTargetInfo::with_clear_depth", "clear_depth", "f32", clear_depth)
       \/ \E load_op \in LoadOpInputs :
            Setter(DepthStencilTargetInfo_with_load_op(d, load_op),
                   "DepthStencilTargetInfo::with_load_op", "load_op", "tag", load_op)
       \/ \E store_op \in StoreOpInputs :
            Setter(DepthStencilTargetInfo_with_store_op(d, store_op),
                   "DepthStencilTargetInfo::with_store_op", "store_op", "tag", store_op)
       \/ \E stencil_load_op \in LoadOpInputs :
            Setter(DepthStencilTargetInfo_with_stencil_load_op(d, stencil_load_op),
                   "DepthStencilTargetInfo::with_stencil_load_op", "stencil_load_op", "tag", stencil_load_op)
       \/ \E stencil_store_op \in StoreOpInputs :
            Setter(DepthStencilTargetInfo_with_stencil_store_op(d, stencil_store_op),
                   "DepthStencilTargetInfo::with_stencil_store_op", "stencil_store_op", "tag", stencil_store_op)
       \/ \E cycle \in BOOLEAN :
            Setter(DepthStencilTargetInfo_with_cycle(d, cycle),
                   "DepthStencilTargetInfo::with_cycle", "cycle", "bool", cycle)
       \/ \E clear_stencil \in U8Inputs :
            Setter(DepthStencilTargetInfo_with_clear_stencil(d, clear_stencil),
                   "DepthStencilTargetInfo::with_clear_stencil", "clear_stencil", "int", clear_stencil)

ColorTargetInfo_ref_step ==
    /\ d.ty = "ColorTargetInfo"
    /\ UNCHANGED clipVars
    /\ \/ \E texture \in Live("Texture") :
            Setter(ColorTargetInfo_with_texture(d, texture),
                   "ColorTargetInfo::with_texture", "texture", "handle", texture)
       \/ \E resolve_texture \in Live("Texture") :
            Setter(ColorTargetInfo_with_resolve_texture(d, resolve_texture),
                   "ColorTargetInfo::with_resolve_texture", "resolve_texture", "handle", resolve_texture)

ColorTargetInfo_val_step ==
    /\ d.ty = "ColorTargetInfo"
    /\ UNCHANGED clipVars
    /\ \/ \E mip_level \in U32Inputs :
            Setter(ColorTargetInfo_with_mip_level(d, mip_level),
                   "ColorTargetInfo::with_mip_level", "mip_level", "int", mip_level)
       \/ \E layer_or_depth_plane \in U32Inputs :
            Setter(ColorTargetInfo_with_layer_or_depth_plane(d, layer_or_depth_plane),
                   "ColorTargetInfo::with_layer_or_depth_plane", "layer_or_depth_plane", "int", layer_or_depth_plane)
       \/ \E clear_color \in ColorInputs :
            Setter(ColorTargetInfo_with_clear_color(d, clear_color),
                   "ColorTargetInfo::with_clear_color", "clear_color", "color", clear_color)
       \/ \E load_op \in LoadOpInputs :
            Setter(ColorTargetInfo_with_load_op(d, load_op),
                   "ColorTargetInfo::with_load_op", "load_op", "tag", load_op)
       \/ \E store_op \in StoreOpInputs :
            Setter(ColorTargetInfo_with_store_op(d, store_op),
                   "ColorTargetInfo::with_store_op", "store_op", "tag", store_op)
       \/ \E resolve_mip_level \in U32Inputs :
            Setter(ColorTargetInfo_with_resolve_mip_level(d, resolve_mip_level),
                   "ColorTargetInfo::with_resolve_mip_level", "resolve_mip_level", "int", resolve_mip_level)
       \/ \E resolve_layer \in U32Inputs :
            Setter(ColorTargetInfo_with_resolve_layer(d, resolve_layer),
                   "ColorTargetInfo::with_resolve_layer", "resolve_layer", "int", resolve_layer)
       \/ \E cycle \in BOOLEAN :
            Setter(ColorTargetInfo_with_cycle(d, cycle),
                   "ColorTargetInfo::with_cycle", "cycle", "bool", cycle)
       \/ \E cycle_resolve_texture \in BOOLEAN :
            Setter(ColorTargetInfo_with_cycle_resolve_texture(d, cycle_resolve_texture),
                   "ColorTargetInfo::with_cycle_resolve_texture", "cycle_resolve_texture", "bool", cycle_resolve_texture)

TextureCreateInfo_val_step ==
    /\ d.ty = "TextureCreateInfo"
    /\ UNCHANGED clipVars
    /\ \/ \E type \in EnumInputs("TextureType") :
            Setter(TextureCreateInfo_with_type(d, type),
                   "TextureCreateInfo::with_type", "type", "enum", type)
       \/ \E format \in TextureFormatInputs :
            Setter(TextureCreateInfo_with_format(d, format),
                   "TextureCreateInfo::with_format", "format", "tag", format)
       \/ \E usage \in FlagsInputs :
            Setter(TextureCreateInfo_with_usage(d, usage),
                   "TextureCreateInfo::with_usage", "usage", "flags", usage)
       \/ \E width \in U32Inputs :
            Setter(TextureCreateInfo_with_width(d, width),
                   "TextureCreateInfo::with_width", "width", "int", width)
       \/ \E height \in U32Inputs :
            Setter(TextureCreateInfo_with_height(d, height),
                   "TextureCreateInfo::with_height", "height", "int", height)
       \/ \E layer_count_or_depth \in U32Inputs :
            Setter(TextureCreateInfo_with_layer_count_or_depth(d, layer_count_or_depth),
                   "TextureCreateInfo::with_layer_count_or_depth", "layer_count_or_depth", "int", layer_count_or_depth)
       \/ \E num_levels \in U32Inputs :
            Setter(TextureCreateInfo_with_num_levels(d, num_levels),
                   "TextureCreateInfo::with_num_levels", "num_levels", "int", num_levels)
       \/ \E sample_count \in EnumInputs("SampleCount") :
            Setter(TextureCreateInfo_with_sample_count(d, sample_count),
                   "TextureCreateInfo::with_sample_count", "sample_count", "enum", sample_count)

SamplerCreateInfo_val_step ==
    /\ d.ty = "SamplerCreateInfo"
    /\ UNCHANGED clipVars
    /\ \/ \E filter \in EnumInputs("Filter") :
            Setter(SamplerCreateInfo_with_min_filter(d, filter),
                   "SamplerCreateInfo::with_min_filter", "min_filter", "enum", filter)
       \/ \E filter \in EnumInputs("Filter") :
            Setter(SamplerCreateInfo_with_mag_filter(d, filter),
                   "SamplerCreateInfo::with_mag_filter", "mag_filter", "enum", filter)
       \/ \E mode \in EnumInputs("SamplerMipmapMode") :
            Setter(SamplerCreateInfo_with_mipmap_mode(d, mode),
                   "SamplerCreateInfo::with_mipmap_mode", "mipmap_mode", "enum", mode)
       \/ \E mode \in EnumInputs("SamplerAddressMode") :
            Setter(SamplerCreateInfo_with_address_mode_u(d, mode),
                   "SamplerCreateInfo::with_address_mode_u", "address_mode_u", "enum", mode)
       \/ \E mode \in EnumInputs("SamplerAddressMode") :
            Setter(SamplerCreateInfo_with_address_mode_v(d, mode),
                   "SamplerCreateInfo::with_address_mode_v", "address_mode_v", "enum", mode)
       \/ \E mode \in EnumInputs("SamplerAddressMode") :
            Setter(SamplerCreateInfo_with_address_mode_w(d, mode),
                   "SamplerCreateInfo::with_address_mode_w", "address_mode_w", "enum", mode)
       \/ \E mip_lod_bias \in F32Inputs :
            Setter(SamplerCreateInfo_with_mip_lod_bias(d, mip_lod_bias),
                   "SamplerCreateInfo::with_mip_lod_bias", "mip_lod_bias", "f32", mip_lod_bias)
       \/ \E max_anisotropy \in F32Inputs :
            Setter(SamplerCreateInfo_with_max_anisotropy(d, max_anisotropy),
                   "SamplerCreateInfo::with_max_anisotropy", "max_anisotropy", "f32", max_anisotropy)
       \/ \E compare_op \in EnumInputs("CompareOp") :
            Setter(SamplerCreateInfo_with_compare_op(d, compare_op),
                   "SamplerCreateInfo::with_compare_op", "compare_op", "enum", compare_op)
       \/ \E min_lod \in F32Inputs :
            Setter(SamplerCreateInfo_with_min_lod(d, min_lod),
                   "SamplerCreateInfo::with_min_lod", "min_lod", "f32", min_lod)
       \/ \E max_lod \in F32Inputs :
            Setter(SamplerCreateInfo_with_max_lod(d, max_lod),
                   "SamplerCreateInfo::with_max_lod", "max_lod", "f32", max_lod)
       \/ \E enable_anisotropy \in BOOLEAN :
            Setter(SamplerCreateInfo_with_enable_anisotropy(d, enable_anisotropy),
                   "SamplerCreateInfo::with_enable_anisotropy", "enable_anisotropy", "bool", enable_anisotropy)
       \/ \E enable_compare \in BOOLEAN :
            Setter(SamplerCreateInfo_with_enable_compare(d, enable_compare),
                   "SamplerCreateInfo::with_enable_compare", "enable_compare", "bool", enable_compare)

TextureRegion_ref_step ==
    /\ d.ty = "TextureRegion"
    /\ UNCHANGED clipVars
    /\ \/ \E texture \in Live("Texture") :
            Setter(TextureRegion_with_texture(d, texture),
                   "TextureRegion::with_texture", "texture", "handle", texture)

TextureRegion_val_step ==
    /\ d.ty = "TextureRegion"
    /\ UNCHANGED clipVars
    /\ \/ \E mip_level \in U32Inputs :
            Setter(TextureRegion_with_mip_level(d, mip_level),
                   "TextureRegion::with_mip_level", "mip_level", "int", mip_level)
       \/ \E layer \in U32Inputs :
            Setter(TextureRegion_with_layer(d, layer),
                   "TextureRegion::with_layer", "layer", "int", layer)
       \/ \E x \in U32Inputs :
            Setter(TextureRegion_with_x(d, x),
                   "TextureRegion::with_x", "x", "int", x)
       \/ \E y \in U32Inputs :
            Setter(TextureRegion_with_y(d, y),
                   "TextureRegion::with_y", "y", "int", y)
       \/ \E z \in U32Inputs :
            Setter(TextureRegion_with_z(d, z),
                   "TextureRegion::with_z", "z", "int", z)
       \/ \E width \in U32Inputs :
            Setter(TextureRegion_with_width(d, width),
                   "TextureRegion::with_width", "w", "int", width)
       \/ \E height \in U32Inputs :
            Setter(TextureRegion_with_height(d, height),
                   "TextureRegion::with_height", "h", "int", height)
       \/ \E depth \in U32Inputs :
            Setter(TextureRegion_with_depth(d, depth),
                   "TextureRegion::with_depth", "d", "int", depth)

TextureTransferInfo_ref_step ==
    /\ d.ty = "TextureTransferInfo"
    /\ UNCHANGED clipVars
    /\ \/ \E buffer \in Live("TransferBuffer") :
            Setter(TextureTransferInfo_with_transfer_buffer(d, buffer),
                   "TextureTransferInfo::with_transfer_buffer", "transfer_buffer", "handle", buffer)

TextureTransferInfo_val_step ==
    /\ d.ty = "TextureTransferInfo"
    /\ UNCHANGED clipVars
    /\ \/ \E offset \in U32Inputs :
            Setter(TextureTransferInfo_with_offset(d, offset),
                   "TextureTransferInfo::with_offset", "offset", "int", offset)
       \/ \E pixels_per_row \in U32Inputs :
            Setter(TextureTransferInfo_with_pixels_per_row(d, pixels_per_row),
                   "TextureTransferInfo::with_pixels_per_row", "pixels_per_row", "int", pixels_per_row)
       \/ \E rows_per_layer \in U32Inputs :
            Setter(TextureTransferInfo_with_rows_per_layer(d, rows_per_layer),
                   "TextureTransferInfo::with_rows_per_layer", "rows_per_layer", "int", rows_per_layer)

BufferBinding_ref_step ==
    /\ d.ty = "BufferBinding"
    /\ UNCHANGED clipVars
    /\ \/ \E buffer \in Live("Buffer") :
            Setter(BufferBinding_with_buffer(d, buffer),
                   "BufferBinding::with_buffer", "buffer", "handle", buffer)

BufferBinding_val_step ==
    /\ d.ty = "BufferBinding"
    /\ UNCHANGED clipVars
    /\ \/ \E offset \in U32Inputs :
            Setter(BufferBinding_with_offset(d, offset),
                   "BufferBinding::with_offset", "offset", "int", offset)

TransferBufferLocation_ref_step ==
    /\ d.ty = "TransferBufferLocation"
    /\ UNCHANGED clipVars
    /\ \/ \E transfer_buffer \in Live("TransferBuffer") :
            Setter(TransferBufferLocation_with_transfer_buffer(d, transfer_buffer),
                   "TransferBufferLocation::with_transfer_buffer", "transfer_buffer", "handle", transfer_buffer)

TransferBufferLocation_val_step ==
    /\ d.ty = "TransferBufferLocation"
    /\ UNCHANGED clipVars
    /\ \/ \E offset \in U32Inputs :
            Setter(TransferBufferLocation_with_offset(d, offset),
                   "TransferBufferLocation::with_offset", "offset", "int", offset)

BufferLocation_ref_step ==
    /\ d.ty = "BufferLocation"
    /\ UNCHANGED clipVars
    /\ \/ \E buffer \in Live("Buffer") :
            Setter(BufferLocation_with_buffer(d, buffer),
                   "BufferLocation::with_buffer", "buffer", "handle", buffer)

BufferLocation_val_step ==
    /\ d.ty = "BufferLocation"
    /\ UNCHANGED clipVars
    /\ \/ \E offset \in U32Inputs :
            Setter(BufferLocation_with_offset(d, offset),
                   "BufferLocation::with_offset", "offset", "int", offset)

BufferRegion_ref_step ==
    /\ d.ty = "BufferRegion"
    /\ UNCHANGED clipVars
    /\ \/ \E buffer \in Live("Buffer") :
            Setter(BufferRegion_with_buffer(d, buffer),
                   "BufferRegion::with_buffer", "buffer", "handle", buffer)

BufferRegion_val_step ==
    /\ d.ty = "BufferRegion"
    /\ UNCHANGED clipVars
    /\ \/ \E offset \in U32Inputs :
            Setter(BufferRegion_with_offset(d, offset),
                   "BufferRegion::with_offset", "offset", "int", offset)
       \/ \E size \in U32Inputs :
            Setter(BufferRegion_with_size(d, size),
                   "BufferRegion::with_size", "size", "int", size)

VertexBufferDescription_val_step ==
    /\ d.ty = "VertexBufferDescription"
    /\ UNCHANGED clipVars
    /\ \/ \E slot \in U32Inputs :
            Setter(VertexBufferDescription_with_slot(d, slot),
                   "VertexBufferDescription::with_slot", "slot", "int", slot)
       \/ \E pitch \in U32Inputs :
            Setter(VertexBufferDescription_with_pitch(d, pitch),
                   "VertexBufferDescription::with_pitch", "pitch", "int", pitch)
       \/ \E input_rate \in EnumInputs("VertexInputRate") :
            Setter(VertexBufferDescription_with_input_rate(d, input_rate),
                   "VertexBufferDescription::with_input_rate", "input_rate", "enum", input_rate)

VertexInputState_ref_step ==
    /\ d.ty = "VertexInputState"
    /\ UNCHANGED clipVars
    /\ \/ \E vertex_buffer_descriptions \in Live("[VertexBufferDescription]") :
            Setter(VertexInputState_with_vertex_buffer_descriptions(d, vertex_buffer_descriptions),
                   "VertexInputState::with_vertex_buffer_descriptions", "vertex_buffer_descriptions", "slice", vertex_buffer_descriptions)
       \/ \E vertex_attributes \in Live("[VertexAttribute]") :
            Setter(VertexInputState_with_vertex_attributes(d, vertex_attributes),
                   "VertexInputState::with_vertex_attributes", "vertex_attributes", "slice", vertex_attributes)

RasterizerState_val_step ==
    /\ d.ty = "RasterizerState"
    /\ UNCHANGED clipVars
    /\ \/ \E fill_mode \in EnumInputs("FillMode") :
            Setter(RasterizerState_with_fill_mode(d, fill_mode),
                   "RasterizerState::with_fill_mode", "fill_mode", "enum", fill_mode)
       \/ \E cull_mode \in EnumInputs("CullMode") :
            Setter(RasterizerState_with_cull_mode(d, cull_mode),
                   "RasterizerState::with_cull_mode", "cull_mode", "enum", cull_mode)
       \/ \E front_face \in EnumInputs("FrontFace") :
            Setter(RasterizerState_with_front_face(d, front_face),
                   "RasterizerState::with_front_face", "front_face", "enum", front_face)
       \/ \E depth_bias_constant_factor \in F32Inputs :
            Setter(RasterizerState_with_depth_bias_constant_factor(d, depth_bias_constant_factor),
                   "RasterizerState::with_depth_bias_constant_factor", "depth_bias_constant_factor", "f32", depth_bias_constant_factor)
       \/ \E depth_bias_clamp \in F32Inputs :
            Setter(RasterizerState_with_depth_bias_clamp(d, depth_bias_clamp),
                   "RasterizerState::with_depth_bias_clamp", "depth_bias_clamp", "f32", depth_bias_clamp)
       \/ \E depth_bias_slope_factor \in F32Inputs :
            Setter(RasterizerState_with_depth_slope_factor(d, depth_bias_slope_factor),
                   "RasterizerState::with_depth_slope_factor", "depth_bias_slope_factor", "f32", depth_bias_slope_factor)
       \/ \E enable_depth_bias \in BOOLEAN :
            Setter(RasterizerState_with_enable_depth_bias(d, enable_depth_bias),
                   "RasterizerState::with_enable_depth_bias", "enable_depth_bias", "bool", enable_depth_bias)
       \/ \E enable_depth_clip \in BOOLEAN :
            Setter(RasterizerState_with_enable_depth_clip(d, enable_depth_clip),
                   "RasterizerState::with_enable_depth_clip", "enable_depth_clip", "bool", enable_depth_clip)

StencilOpState_val_step ==
    /\ d.ty = "StencilOpState"
    /\ UNCHANGED clipVars
    /\ \/ \E compare_op \in EnumInputs("CompareOp") :
            Setter(StencilOpState_with_compare_op(d, compare_op),
                   "StencilOpState::with_compare_op", "compare_op", "enum", compare_op)
       \/ \E fail_op \in EnumInputs("StencilOp") :
            Setter(StencilOpState_with_fail_op(d, fail_op),
                   "StencilOpState::with_fail_op", "fail_op", "enum", fail_op)
       \/ \E pass_op \in EnumInputs("StencilOp") :
            Setter(StencilOpState_with_pass_op(d, pass_op),
                   "StencilOpState::with_pass_op", "pass_op", "enum", pass_op)
       \/ \E depth_fail_op \in EnumInputs("StencilOp") :
            Setter(StencilOpState_with_depth_fail_op(d, depth_fail_op),
                   "StencilOpState::with_depth_fail_op", "depth_fail_op", "enum", depth_fail_op)

DepthStencilState_val_step ==
    /\ d.ty = "DepthStencilState"
    /\ UNCHANGED clipVars
    /\ \/ \E compare_op \in EnumInputs("CompareOp") :
            Setter(DepthStencilState_with_compare_op(d, compare_op),
                   "DepthStencilState::with_compare_op", "compare_op", "enum", compare_op)
       \/ \E back_stencil_state \in StencilOpStateInputs :
            Setter(DepthStencilState_with_back_stencil_state(d, back_stencil_state),
                   "DepthStencilState::with_back_stencil_state", "back_stencil_state", "nested", back_stencil_state)
       \/ \E front_stencil_state \in StencilOpStateInputs :
            Setter(DepthStencilState_with_front_stencil_state(d, front_stencil_state),
                   "DepthStencilState::with_front_stencil_state", "front_stencil_state", "nested", front_stencil_state)
       \/ \E compare_mask \in U8Inputs :
            Setter(DepthStencilState_with_compare_mask(d, compare_mask),
                   "DepthStencilState::with_compare_mask", "compare_mask", "int", compare_mask)
       \/ \E write_mask \in U8Inputs :
            Setter(DepthStencilState_with_write_mask(d, write_mask),
                   "DepthStencilState::with_write_mask", "write_mask", "int", write_mask)
       \/ \E enable_depth_test \in BOOLEAN :
            Setter(DepthStencilState_with_enable_depth_test(d, enable_depth_test),
                   "DepthStencilState::with_enable_depth_test", "enable_depth_test", "bool", enable_depth_test)
       \/ \E enable_depth_write \in BOOLEAN :
            Setter(DepthStencilState_with_enable_depth_write(d, enable_depth_write),
                   "DepthStencilState::with_enable_depth_write", "enable_depth_write", "bool", enable_depth_write)
       \/ \E enable_stencil_test \in BOOLEAN :
            Setter(DepthStencilState_with_enable_stencil_test(d, enable_stencil_test),
                   "DepthStencilState::with_enable_stencil_test", "enable_stencil_test", "bool", enable_stencil_test)

GraphicsPipelineTargetInfo_ref_step ==
    /\ d.ty = "GraphicsPipelineTargetInfo"
    /\ UNCHANGED clipVars
    /\ \/ \E color_target_descriptions \in Live("[ColorTargetDescription]") :
            Setter(GraphicsPipelineTargetInfo_with_color_target_descriptions(d, color_target_descriptions),
                   "GraphicsPipelineTargetInfo::with_color_target_descriptions", "color_target_descriptions", "slice", color_target_descriptions)

GraphicsPipelineTargetInfo_val_step ==
    /\ d.ty = "GraphicsPipelineTargetInfo"
    /\ UNCHANGED clipVars
    /\ \/ \E depth_stencil_format \in TextureFormatInputs :
            Setter(GraphicsPipelineTargetInfo_with_depth_stencil_format(d, depth_stencil_format),
                   "GraphicsPipelineTargetInfo::with_depth_stencil_format", "depth_stencil_format", "tag", depth_stencil_format)
       \/ \E has_depth_stencil_target \in BOOLEAN :
            Setter(GraphicsPipelineTargetInfo_with_has_depth_stencil_target(d, has_depth_stencil_target),
                   "GraphicsPipelineTargetInfo::with_has_depth_stencil_target", "has_depth_stencil_target", "bool", has_depth_stencil_target)

VertexAttribute_val_step ==
    /\ d.ty = "VertexAttribute"
    /\ UNCHANGED clipVars
    /\ \/ \E location \in U32Inputs :
            Setter(VertexAttribute_with_location(d, location),
                   "VertexAttribute::with_location", "location", "int", location)
       \/ \E buffer_slot \in U32Inputs :
            Setter(VertexAttribute_with_buffer_slot(d, buffer_slot),
                   "VertexAttribute::with_buffer_slot", "buffer_slot", "int", buffer_slot)
       \/ \E format \in EnumInputs("VertexElementFormat") :
            Setter(VertexAttribute_with_format(d, format),
                   "VertexAttribute::with_format", "format", "enum", format)
       \/ \E offset \in U32Inputs :
            Setter(VertexAttribute_with_offset(d, offset),
                   "VertexAttribute::with_offset", "offset", "int", offset)

ColorTargetBlendState_val_step ==
    /\ d.ty = "ColorTargetBlendState"
    /\ UNCHANGED clipVars
    /\ \/ \E src_color_blendfactor \in EnumInputs("BlendFactor") :
            Setter(ColorTargetBlendState_with_src_color_blendfactor(d, src_color_blendfactor),
                   "ColorTargetBlendState::with_src_color_blendfactor", "src_color_blendfactor", "enum", src_color_blendfactor)
       \/ \E dst_color_blendfactor \in EnumInputs("BlendFactor") :
            Setter(ColorTargetBlendState_with_dst_color_blendfactor(d, dst_color_blendfactor),
                   "ColorTargetBlendState::with_dst_color_blendfactor", "dst_color_blendfactor", "enum", dst_color_blendfactor)
       \/ \E color_blend_op \in EnumInputs("BlendOp") :
            Setter(ColorTargetBlendState_with_color_blend_op(d, color_blend_op),
                   "ColorTargetBlendState::with_color_blend_op", "color_blend_op", "enum", color_blend_op)
       \/ \E src_alpha_blendfactor \in EnumInputs("BlendFactor") :
            Setter(ColorTargetBlendState_with_src_alpha_blendfactor(d, src_alpha_blendfactor),
                   "ColorTargetBlendState::with_src_alpha_blendfactor", "src_alpha_blendfactor", "enum", src_alpha_blendfactor)
       \/ \E dst_alpha_blendfactor \in EnumInputs("BlendFactor") :
            Setter(ColorTargetBlendState_with_dst_alpha_blendfactor(d, dst_alpha_blendfactor),
                   "ColorTargetBlendState::with_dst_alpha_blendfactor", "dst_alpha_blendfactor", "enum", dst_alpha_blendfactor)
       \/ \E alpha_blend_op \in EnumInputs("BlendOp") :
            Setter(ColorTargetBlendState_with_alpha_blend_op(d, alpha_blend_op),
                   "ColorTargetBlendState::with_alpha_blend_op", "alpha_blend_op", "enum", alpha_blend_op)
       \/ \E color_write_mask \in FlagsInputs :
            Setter(ColorTargetBlendState_with_color_write_mask(d, color_write_mask),
                   "ColorTargetBlendState::with_color_write_mask", "color_write_mask", "flags", color_write_mask)
       \/ \E enable_blend \in BOOLEAN :
            Setter(ColorTargetBlendState_with_enable_blend(d, enable_blend),
                   "ColorTargetBlendState::with_enable_blend", "enable_blend", "bool", enable_blend)
       \/ \E enable_color_write_mask \in BOOLEAN :
            Setter(ColorTargetBlendState_with_enable_color_write_mask(d, enable_color_write_mask),
                   "ColorTargetBlendState::with_enable_color_write_mask", "enable_color_write_mask", "bool", enable_color_write_mask)

ColorTargetDescription_val_step ==
    /\ d.ty = "ColorTargetDescription"
    /\ UNCHANGED clipVars
    /\ \/ \E format \in TextureFormatInputs :
            Setter(ColorTargetDescription_with_format(d, format),
                   "ColorTargetDescription::with_format", "format", "tag", format)
       \/ \E blend_state \in ColorTargetBlendStateInputs :
            Setter(ColorTargetDescription_with_blend_state(d, blend_state),
                   "ColorTargetDescription::with_blend_state", "blend_state", "nested", blend_state)

TextureSamplerBinding_ref_step ==
    /\ d.ty = "TextureSamplerBinding"
    /\ UNCHANGED clipVars
    /\ \/ \E texture \in Live("Texture") :
            Setter(TextureSamplerBinding_with_texture(d, texture),
                   "TextureSamplerBinding::with_texture", "texture", "handle", texture)
       \/ \E sampler \in Live("Sampler") :
            Setter(TextureSamplerBinding_with_sampler(d, sampler),
                   "TextureSamplerBinding::with_sampler", "sampler", "handle", sampler)

StorageTextureReadWriteBinding_ref_step ==
    /\ d.ty = "StorageTextureReadWriteBinding"
    /\ UNCHANGED clipVars
    /\ \/ \E texture \in Live("Texture") :
            Setter(StorageTextureReadWriteBinding_with_texture(d, texture),
                   "StorageTextureReadWriteBinding::with_texture", "texture", "handle", texture)

StorageTextureReadWriteBinding_val_step ==
    /\ d.ty = "StorageTextureReadWriteBinding"
    /\ UNCHANGED clipVars
    /\ \/ \E mip_level \in U32Inputs :
            Setter(StorageTextureReadWriteBinding_with_mip_level(d, mip_level),
                   "StorageTextureReadWriteBinding::with_mip_level", "mip_level", "int", mip_level)
       \/ \E layer \in U32Inputs :
            Setter(StorageTextureReadWriteBinding_with_layer(d, layer),
                   "StorageTextureReadWriteBinding::with_layer", "layer", "int", layer)
       \/ \E cycle \in BOOLEAN :
            Setter(StorageTextureReadWriteBinding_with_cycle(d, cycle),
                   "StorageTextureReadWriteBinding::with_cycle", "cycle", "bool", cycle)

StorageBufferReadWriteBinding_ref_step ==
    /\ d.ty = "StorageBufferReadWriteBinding"
    /\ UNCHANGED clipVars
    /\ \/ \E buffer \in Live("Buffer") :
            Setter(StorageBufferReadWriteBinding_with_buffer(d, buffer),
                   "StorageBufferReadWriteBinding::with_buffer", "buffer", "handle", buffer)

StorageBufferReadWriteBinding_val_step ==
    /\ d.ty = "StorageBufferReadWriteBinding"
    /\ UNCHANGED clipVars
    /\ \/ \E cycle \in BOOLEAN :
            Setter(StorageBufferReadWriteBinding_with_cycle(d, cycle),
                   "StorageBufferReadWriteBinding::with_cycle", "cycle", "bool", cycle)

TextureLocation_ref_step ==
    /\ d.ty = "TextureLocation"
    /\ UNCHANGED clipVars
    /\ \/ \E texture \in Live("Texture") :
            Setter(TextureLocation_with_texture(d, texture),
                   "TextureLocation::with_texture", "texture", "handle", texture)

TextureLocation_val_step ==
    /\ d.ty = "TextureLocation"
    /\ UNCHANGED clipVars
    /\ \/ \E mip_level \in U32Inputs :
            Setter(TextureLocation_with_mip_level(d, mip_level),
                   "TextureLocation::with_mip_level", "mip_level", "int", mip_level)
       \/ \E layer \in U32Inputs :
            Setter(TextureLocation_with_layer(d, layer),
                   "TextureLocation::with_layer", "layer", "int", layer)
       \/ \E x \in U32Inputs :
            Setter(TextureLocation_with_x(d, x),
                   "TextureLocation::with_x", "x", "int", x)
       \/ \E y \in U32Inputs :
            Setter(TextureLocation_with_y(d, y),
                   "TextureLocation::with_y", "y", "int", y)
       \/ \E z \in U32Inputs :
            Setter(TextureLocation_with_z(d, z),
                   "TextureLocation::with_z", "z", "int", z)

\* The descriptor types that hold references.
RefDescriptors ==
    {DepthStencilTargetInfo_new,
     ColorTargetInfo_new,
     TextureRegion_new,
     TextureTransferInfo_new,
     BufferBinding_new,
     TransferBufferLocation_new,
     BufferLocation_new,
     BufferRegion_new,
     VertexInputState_new,
     GraphicsPipelineTargetInfo_new,
     TextureSamplerBinding_new,
     StorageTextureReadWriteBinding_new,
     StorageBufferReadWriteBinding_new,
     TextureLocation_new}

GpuInit ==
    /\ d = NoDescriptor
    /\ call = [step |-> "init", fn |-> "", named |-> "", kind |-> "", arg |-> 0]
    /\ ncalls = 0
    /\ alive = Resources

\* Building descriptors: new() and every setter.
GpuNext ==
    \/ \E desc \in Descriptors : New(desc) /\ UNCHANGED clipVars
    \/ DepthStencilTargetInfo_ref_step
    \/ DepthStencilTargetInfo_val_step
    \/ ColorTargetInfo_ref_step
    \/ ColorTargetInfo_val_step
    \/ TextureCreateInfo_val_step
    \/ SamplerCreateInfo_val_step
    \/ TextureRegion_ref_step
    \/ TextureRegion_val_step
    \/ TextureTransferInfo_ref_step
    \/ TextureTransferInfo_val_step
    \/ BufferBinding_ref_step
    \/ BufferBinding_val_step
    \/ TransferBufferLocation_ref_step
    \/ TransferBufferLocation_val_step
    \/ BufferLocation_ref_step
    \/ BufferLocation_val_step
    \/ BufferRegion_ref_step
    \/ BufferRegion_val_step
    \/ VertexBufferDescription_val_step
    \/ VertexInputState_ref_step
    \/ RasterizerState_val_step
    \/ StencilOpState_val_step
    \/ DepthStencilState_val_step
    \/ GraphicsPipelineTargetInfo_ref_step
    \/ GraphicsPipelineTargetInfo_val_step
    \/ VertexAttribute_val_step
    \/ ColorTargetBlendState_val_step
    \/ ColorTargetDescription_val_step
    \/ TextureSamplerBinding_ref_step
    \/ StorageTextureReadWriteBinding_ref_step
    \/ StorageTextureReadWriteBinding_val_step
    \/ StorageBufferReadWriteBinding_ref_step
    \/ StorageBufferReadWriteBinding_val_step
    \/ TextureLocation_ref_step
    \/ TextureLocation_val_step

\* Descriptors and the resources they refer to: new(), the setters that
\* take a reference, a resource dropped, the descriptor consumed.
LifeNext ==
    \/ \E desc \in RefDescriptors : New(desc) /\ UNCHANGED clipVars
    \/ DepthStencilTargetInfo_ref_step
    \/ ColorTargetInfo_ref_step
    \/ TextureRegion_ref_step
    \/ TextureTransferInfo_ref_step
    \/ BufferBinding_ref_step
    \/ TransferBufferLocation_ref_step
    \/ BufferLocation_ref_step
    \/ BufferRegion_ref_step
    \/ VertexInputState_ref_step
    \/ GraphicsPipelineTargetInfo_ref_step
    \/ TextureSamplerBinding_ref_step
    \/ StorageTextureReadWriteBinding_ref_step
    \/ StorageBufferReadWriteBinding_ref_step
    \/ TextureLocation_ref_step
    \/ \E r \in Resources : Drop(r) /\ UNCHANGED clipVars
    \/ Consume /\ UNCHANGED clipVars

\* ------------------------------------------------------------------ specifications

Init == ClipInit /\ GpuInit

\* The clipboard: the three wrappers, and the clipboard changing under them.
ClipNext ==
    \/ \E text \in StrInputs : set_clipboard_text(text) /\ UNCHANGED gpuVars
    \/ clipboard_text /\ UNCHANGED gpuVars
    \/ has_clipboard_text /\ UNCHANGED gpuVars
    \/ \E text \in ForeignTexts : ForeignWrite(text) /\ UNCHANGED gpuVars

ClipSpec == Init /\ [][ClipNext]_vars

GpuSpec == Init /\ [][GpuNext]_vars

LifeSpec == Init /\ [][LifeNext]_vars

\* The clipboard functions called by concurrent callers, in any interleaving.
ConcNext ==
    \/ \E self \in Threads : clipboard_text_get(self) /\ UNCHANGED gpuVars
    \/ \E self \in Threads : clipboard_text_null(self) /\ UNCHANGED gpuVars
    \/ \E self \in Threads : clipboard_text_read(self) /\ UNCHANGED gpuVars
    \/ \E self \in Threads : clipboard_text_free(self) /\ UNCHANGED gpuVars
    \/ \E self \in Threads, text \in StrInputs :
          concurrent_set_clipboard_text(self, text) /\ UNCHANGED gpuVars
    \/ \E self \in Threads :
          concurrent_set_clipboard_text_failed(self) /\ UNCHANGED gpuVars
    \/ \E self \in Threads : concurrent_has_clipboard_text(self) /\ UNCHANGED gpuVars

ConcSpec == Init /\ [][ConcNext]_vars

\* Every u8 value in one channel of a Color, the other channels at 0 or 255.
ChannelSweep ==
    {[r |-> c, g |-> x, b |-> 255 - x, a |-> 255] : c \in 0..255, x \in {0, 255}}
    \cup {[r |-> x, g |-> c, b |-> 255, a |-> 255 - x] : c \in 0..255, x \in {0, 255}}
    \cup {[r |-> 255, g |-> x, b |-> c, a |-> 255 - x] : c \in 0..255, x \in {0, 255}}
    \cup {[r |-> 255 - x, g |-> 255, b |-> x, a |-> c] : c \in 0..255, x \in {0, 255}}

\* A fresh ColorTargetInfo and the Color with_clear_color is about to get.
ColorInit ==
    /\ ClipInit
    /\ d = ColorTargetInfo_new
    /\ \E clear_color \in ChannelSweep :
           call = [step |-> "new", fn |-> "ColorTargetInfo", named |-> "", kind |-> "",
                   arg |-> clear_color]
    /\ ncalls = 0
    /\ alive = Resources

ColorNext ==
    /\ call.step = "new"
    /\ Setter(ColorTargetInfo_with_clear_color(d, call.arg),
              "ColorTargetInfo::with_clear_color", "clear_color", "color", call.arg)
    /\ UNCHANGED clipVars

ColorSpec == ColorInit /\ [][ColorNext]_vars

Next ==
    \/ ClipNext
    \/ ConcNext
    \/ GpuNext
    \/ \E r \in Resources : Drop(r) /\ UNCHANGED clipVars
    \/ Consume /\ UNCHANGED clipVars

Spec == Init /\ [][Next]_vars

\* ------------------------------------------------------------------ claims: clipboard

\* The external calls of the last operation to the entry point fn.
CallsTo(fn) == {i \in 1..Len(trace) : trace[i].fn = fn}

\* The buffer SDL_GetClipboardText returned to the last clipboard_text.
GotBuf == trace[1].ptr

\* C3 as stated: after a successful set_clipboard_text(t) with no other
\* clipboard write since, clipboard_text returns Ok(t) and has_clipboard_text
\* returns true.
C3_RoundTrip_AsStated ==
    lastSet.valid =>
        /\ op.name = "clipboard_text" => ret = Ok(lastSet.text, FALSE)
        /\ op.name = "has_clipboard_text" => ret = Ok(NoText, TRUE)

\* C3, amended: after a successful set_clipboard_text(t) with no other
\* clipboard write since, a clipboard_text whose SDL_GetClipboardText returns
\* a buffer returns Ok(t) (it returns Err when SDL returns NULL), and
\* has_clipboard_text returns true when t is not empty (false when it is:
\* SDL clears the clipboard for an empty text).
C3_RoundTrip ==
    lastSet.valid =>
        /\ op.name = "clipboard_text" =>
              IF GotBuf # NULL THEN ret = Ok(lastSet.text, FALSE) ELSE ret.kind = "Err"
        /\ op.name = "has_clipboard_text" =>
              ret = Ok(NoText, lastSet.text # <<>>)

C3_Witness ==
    /\ lastSet.valid
    /\ lastSet.text = <<195, 169>>
    /\ op.name = "clipboard_text"
    /\ ret = Ok(<<195, 169>>, FALSE)

\* C4 as stated: clipboard_text returns an error exactly when
\* SDL_GetClipboardText returns NULL, and for every non-null buffer (the empty
\* string included) it returns Ok with the buffer's contents.
C4_ErrIffNull_AsStated ==
    op.name = "clipboard_text" =>
        /\ ret.kind = "Err" <=> GotBuf = NULL
        /\ GotBuf # NULL => ret = Ok(clipboard, FALSE)

\* C5: set_clipboard_text returns Err, carrying SDL's last-error message,
\* exactly when the SDL_SetClipboardText call it made returned false, and
\* Ok(()) exactly when that call returned true.
C5_SetErrIffFalse ==
    op.name = "set_clipboard_text" =>
        LET called == CallsTo("SDL_SetClipboardText")
        IN  /\ Cardinality(called) <= 1
            /\ ret.kind = "Err" <=> \E i \in called : ~trace[i].ok
            /\ ret.kind = "Ok" <=> \E i \in called : trace[i].ok
            /\ ret.kind = "Err" => ret.err = lastError /\ ret.err \in ErrMsgs

C5_Witness ==
    /\ op.name = "set_clipboard_text"
    /\ ret.kind = "Err"
    /\ trace[1] = Call("SDL_SetClipboardText", NULL, FALSE)

\* C6 as stated: every non-null buffer SDL_GetClipboardText returns to
\* clipboard_text is released with SDL_free exactly once, after it was read
\* and before the operation ends on any path, is never read after the
\* release, and SDL_free is never called when the pointer is NULL.
C6_FreedOnce_AsStated ==
    op.name = "clipboard_text" =>
        LET frees == {i \in CallsTo("SDL_free") : trace[i].ptr = GotBuf}
            reads == {i \in CallsTo("CStr::from_ptr") : trace[i].ptr = GotBuf}
        IN  IF GotBuf = NULL
            THEN CallsTo("SDL_free") = {}
            ELSE /\ Cardinality(frees) = 1
                 /\ CallsTo("SDL_free") = frees
                 /\ \A f \in frees, r \in reads : r < f
                 /\ GotBuf \notin heap

\* C7: a text holding a byte 0 makes set_clipboard_text panic before any
\* external call: SDL_SetClipboardText is not called and the clipboard, the
\* error message and the allocator are as they were.
C7_NulRejected ==
    [][(op'.name = "set_clipboard_text" /\ 0 \in Range(op'.text)) =>
          /\ ret' = Panic
          /\ trace' = <<>>
          /\ UNCHANGED <<clipboard, lastError, heap, lastSet>>]_vars

C7_Witness ==
    /\ op.name = "set_clipboard_text"
    /\ op.text = <<65, 0>>
    /\ ret = Panic
    /\ clipboard = <<65>>

\* What a clipboard_text called in the current state can return.
ClipboardTextResults == {clipboard_text_body(o).ret : o \in SDL_GetClipboardText}

\* C10: has_clipboard_text never fails: it returns the bool its one
\* SDL_HasClipboardText call reported, and changes neither the clipboard nor
\* what a later clipboard_text can return.
C10_HasIsPure ==
    [][op'.name = "has_clipboard_text" =>
          /\ ret'.kind = "Ok"
          /\ trace' = <<Call("SDL_HasClipboardText", NULL, ret'.flag)>>
          /\ ret'.flag = SDL_HasClipboardText
          /\ UNCHANGED <<clipboard, lastError, heap>>
          /\ ClipboardTextResults' = ClipboardTextResults]_vars

C10_Witness ==
    /\ op.name = "has_clipboard_text"
    /\ ret = Ok(NoText, TRUE)
    /\ clipboard = <<65, 65>>

\* C11 as stated: while set_clipboard_text has never been called,
\* has_clipboard_text returns false and clipboard_text returns Ok("") or an
\* error, and a call repeated in that state returns what the one before did.
C11_NeverSet_AsStated ==
    /\ [](~everSet =>
            /\ op.name = "has_clipboard_text" => ret = Ok(NoText, FALSE)
            /\ op.name = "clipboard_text" => ret = Ok(NoText, FALSE) \/ ret.kind = "Err")
    /\ [][(~everSet' /\ op'.name = op.name
             /\ op.name \in {"has_clipboard_text", "clipboard_text"}) => ret' = ret]_vars

\* C11, amended: while set_clipboard_text has never been called, what the
\* functions return follows the clipboard, which other programs write.
\* has_clipboard_text returns true exactly when the clipboard holds a text
\* that is not empty: false when no other program has put one there.
\* clipboard_text returns an error when SDL_GetClipboardText returns NULL;
\* when it returns a buffer, Ok with the clipboard's text (Ok("") when no
\* other program has put one there) if that text is valid UTF-8, and it
\* panics if it is not.
C11_NeverSetFollowsClipboard ==
    ~everSet =>
        /\ op.name = "has_clipboard_text" => ret = Ok(NoText, clipboard # <<>>)
        /\ op.name = "clipboard_text" =>
              IF GotBuf = NULL THEN ret.kind = "Err"
              ELSE IF IsUtf8(clipboard) THEN ret = Ok(clipboard, FALSE)
              ELSE ret = Panic

\* clipboard_text returned the empty text, no set_clipboard_text called so far.
C11_Witness ==
    /\ ~everSet
    /\ clipboard = <<>>
    /\ op.name = "clipboard_text"
    /\ GotBuf # NULL
    /\ ret = Ok(NoText, FALSE)

\* C13 as stated: set_clipboard_text hands its NUL-terminated copy of the
\* text over to SDL: the wrapper neither frees nor keeps the copy.
C13_CopyGivenAway_AsStated ==
    (op.name = "set_clipboard_text" /\ ret.kind \in {"Ok", "Err"}) =>
        /\ cstring.bytes = Append(op.text, 0)
        /\ cstring.fate = "given"

\* C13, amended: set_clipboard_text lends its NUL-terminated copy of the
\* text to SDL_SetClipboardText for the length of the call and frees the
\* copy itself when it returns, with Ok and with Err alike; what the
\* clipboard holds after an Ok is SDL's own copy of the text.
C13_CopyLentThenFreed ==
    op.name = "set_clipboard_text" =>
        IF ret.kind \in {"Ok", "Err"}
        THEN /\ cstring.bytes = Append(op.text, 0)
             /\ cstring.fate = "freed"
             /\ ret.kind = "Ok" => clipboard = op.text
        ELSE cstring = NoCString

\* A set_clipboard_text that SDL refused: the copy is freed all the same.
C13_Witness ==
    /\ op.name = "set_clipboard_text"
    /\ op.text = <<195, 169>>
    /\ ret.kind = "Err"
    /\ cstring = [bytes |-> <<195, 169, 0>>, fate |-> "freed"]

\* The entry points of SDL the clipboard functions call.
ExternalFns ==
    {"SDL_SetClipboardText", "SDL_GetClipboardText", "SDL_HasClipboardText",
     "SDL_free", "SDL_GetError"}

IsExternal(c) == c.fn \in ExternalFns

\* The names of the SDL entry points the last operation called, in order.
ExternalCalls ==
    LET calls == SelectSeq(trace, IsExternal)
    IN  [i \in 1..Len(calls) |-> calls[i].fn]

ClipboardOps == {"set_clipboard_text", "clipboard_text", "has_clipboard_text"}

\* C14 as stated: every clipboard operation makes exactly one call into SDL,
\* on success and on failure alike.
C14_OneCall_AsStated ==
    op.name \in ClipboardOps => Len(ExternalCalls) = 1

\* C14, amended: every clipboard operation calls its own SDL entry point
\* exactly once and first (set_clipboard_text not at all when it panics on a
\* byte 0); it then calls SDL_GetError when it returns Err, and
\* clipboard_text calls SDL_free when it returns Ok.
C14_OnePrimaryCall ==
    /\ op.name = "set_clipboard_text" =>
          ExternalCalls =
              CASE ret.kind = "Ok" -> <<"SDL_SetClipboardText">>
                [] ret.kind = "Err" -> <<"SDL_SetClipboardText", "SDL_GetError">>
                [] OTHER -> <<>>
    /\ op.name = "clipboard_text" =>
          ExternalCalls =
              CASE ret.kind = "Ok" -> <<"SDL_GetClipboardText", "SDL_free">>
                [] ret.kind = "Err" -> <<"SDL_GetClipboardText", "SDL_GetError">>
                [] OTHER -> <<"SDL_GetClipboardText">>
    /\ op.name = "has_clipboard_text" =>
          ExternalCalls = <<"SDL_HasClipboardText">>

\* A clipboard_text that succeeded, with its two calls into SDL.
C14_Witness ==
    /\ op.name = "clipboard_text"
    /\ ret = Ok(<<65>>, FALSE)
    /\ Len(trace) = 3
    /\ trace[3] = Call("SDL_free", GotBuf, TRUE)

\* The calls of the last operation to the entry point it wraps that failed.
FailedCalls ==
    {i \in CallsTo("SDL_SetClipboardText") \cup CallsTo("SDL_GetClipboardText") :
        ~trace[i].ok}

\* C15: a failed call into SDL is never retried.  Within one
\* set_clipboard_text, SDL_SetClipboardText is called at most once, within one
\* clipboard_text, SDL_GetClipboardText at most once; after a call that
\* failed nothing is called but SDL_GetError, and the operation returns Err.
C15_NoRetry ==
    /\ op.name = "set_clipboard_text" =>
          Cardinality(CallsTo("SDL_SetClipboardText")) <= 1
    /\ op.name = "clipboard_text" =>
          Cardinality(CallsTo("SDL_GetClipboardText")) <= 1
    /\ \A i \in FailedCalls :
          /\ ret.kind = "Err"
          /\ \A j \in (i + 1)..Len(trace) : trace[j].fn = "SDL_GetError"

\* A clipboard_text whose SDL_GetClipboardText failed, while the clipboard
\* held a text a second call could have fetched.
C15_Witness ==
    /\ op.name = "clipboard_text"
    /\ clipboard = <<65>>
    /\ FailedCalls = {1}
    /\ ret.kind = "Err"

\* The last operation is a set_clipboard_text or clipboard_text that returned Err.
ReturnedErr ==
    op.name \in {"set_clipboard_text", "clipboard_text"} /\ ret.kind = "Err"

\* C16 as stated: when set_clipboard_text or clipboard_text returns an error,
\* the clipboard holds what it held before the call, and the wrapper has
\* neither freed a buffer nor left one allocated.
C16_Atomic_AsStated ==
    [][ReturnedErr' =>
          /\ clipboard' = clipboard
          /\ heap' = heap
          /\ CallsTo("SDL_free")' = {}]_vars

\* C16, amended: when set_clipboard_text or clipboard_text returns an error,
\* the wrapper has passed no buffer to SDL_free and left none allocated, and
\* a failed clipboard_text leaves the clipboard as it was; after a failed
\* set_clipboard_text the clipboard holds what the failed SDL_SetClipboardText
\* left there, the text of before or none, and not the new text unless it
\* is one of these.
C16_NoWrapperEffect ==
    [][ReturnedErr' =>
          /\ heap' = heap
          /\ CallsTo("SDL_free")' = {}
          /\ op'.name = "clipboard_text" => clipboard' = clipboard
          /\ op'.name = "set_clipboard_text" =>
                /\ clipboard' \in {clipboard, <<>>}
                /\ cstring'.fate = "freed"]_vars

\* A set_clipboard_text that failed while the clipboard held another text,
\* with a buffer of an earlier clipboard_text still allocated.
C16_Witness ==
    /\ ReturnedErr
    /\ op = [name |-> "set_clipboard_text", text |-> <<65>>]
    /\ clipboard = <<169>>
    /\ heap = {1}

\* The caller t is inside clipboard_text and holds a buffer.
Holding(t) == threads[t].pc \in {"got", "read"} /\ threads[t].buf # NULL

\* C17: under any interleaving of concurrent callers, each clipboard_text
\* caller reads and frees only the buffer SDL_GetClipboardText returned to
\* it: the buffer a caller holds is allocated and held by no other caller,
\* and no caller reads or frees a buffer that is not allocated.
C17_OwnBufferOnly ==
    \A t \in Threads :
        /\ ~threads[t].fault
        /\ Holding(t) =>
              /\ threads[t].buf \in heap
              /\ \A u \in Threads \ {t} : Holding(u) => threads[u].buf # threads[t].buf

\* Two callers are inside clipboard_text at once, each with a buffer, one
\* about to free its own, and the clipboard has changed since one got its text.
C17_Witness ==
    /\ Holding("t1") /\ Holding("t2")
    /\ threads["t1"].pc = "read"
    /\ threads["t2"].pc = "got"
    /\ threads["t1"].s # CStr_from_ptr(threads["t2"].s)

\* The kind of each field of each record: int (u32, u8), tag (an SDL enum or
\* flag set stored as its integer), f32, bool, handle (a pointer to an SDL
\* object), slice (a pointer to an array), color (SDL_FColor), or the name of
\* the record nested in it.
FieldKinds(ty) ==
    CASE ty = "DepthStencilTargetInfo" ->
           [texture |-> "handle", clear_depth |-> "f32", load_op |-> "tag",
            store_op |-> "tag", stencil_load_op |-> "tag", stencil_store_op |-> "tag",
            cycle |-> "bool", clear_stencil |-> "int", padding1 |-> "int",
            padding2 |-> "int"]
      [] ty = "ColorTargetInfo" ->
           [texture |-> "handle", mip_level |-> "int", layer_or_depth_plane |-> "int",
            clear_color |-> "color", load_op |-> "tag", store_op |-> "tag",
            resolve_texture |-> "handle", resolve_mip_level |-> "int",
            resolve_layer |-> "int", cycle |-> "bool", cycle_resolve_texture |-> "bool",
            padding1 |-> "int", padding2 |-> "int"]
      [] ty = "TextureCreateInfo" ->
           [type |-> "tag", format |-> "tag", usage |-> "tag", width |-> "int",
            height |-> "int", layer_count_or_depth |-> "int", num_levels |-> "int",
            sample_count |-> "tag", props |-> "int"]
      [] ty = "SamplerCreateInfo" ->
           [min_filter |-> "tag", mag_filter |-> "tag", mipmap_mode |-> "tag",
            address_mode_u |-> "tag", address_mode_v |-> "tag", address_mode_w |-> "tag",
            mip_lod_bias |-> "f32", max_anisotropy |-> "f32", compare_op |-> "tag",
            min_lod |-> "f32", max_lod |-> "f32", enable_anisotropy |-> "bool",
            enable_compare |-> "bool", padding1 |-> "int", padding2 |-> "int",
            props |-> "int"]
      [] ty = "TextureRegion" ->
           [texture |-> "handle", mip_level |-> "int", layer |-> "int", x |-> "int",
            y |-> "int", z |-> "int", w |-> "int", h |-> "int", d |-> "int"]
      [] ty = "TextureTransferInfo" ->
           [transfer_buffer |-> "handle", offset |-> "int", pixels_per_row |-> "int",
            rows_per_layer |-> "int"]
      [] ty = "BufferBinding" ->
           [buffer |-> "handle", offset |-> "int"]
      [] ty = "TransferBufferLocation" ->
           [transfer_buffer |-> "handle", offset |-> "int"]
      [] ty = "BufferLocation" ->
           [buffer |-> "handle", offset |-> "int"]
      [] ty = "BufferRegion" ->
           [buffer |-> "handle", offset |-> "int", size |-> "int"]
      [] ty = "VertexBufferDescription" ->
           [slot |-> "int", pitch |-> "int", input_rate |-> "tag",
            instance_step_rate |-> "int"]
      [] ty = "VertexInputState" ->
           [vertex_buffer_descriptions |-> "slice", num_vertex_buffers |-> "int",
            vertex_attributes |-> "slice", num_vertex_attributes |-> "int"]
      [] ty = "RasterizerState" ->
           [fill_mode |-> "tag", cull_mode |-> "tag", front_face |-> "tag",
            depth_bias_constant_factor |-> "f32", depth_bias_clamp |-> "f32",
            depth_bias_slope_factor |-> "f32", enable_depth_bias |-> "bool",
            enable_depth_clip |-> "bool", padding1 |-> "int", padding2 |-> "int"]
      [] ty = "StencilOpState" ->
           [compare_op |-> "tag", fail_op |-> "tag", pass_op |-> "tag",
            depth_fail_op |-> "tag"]
      [] ty = "DepthStencilState" ->
           [compare_op |-> "tag", back_stencil_state |-> "StencilOpState",
            front_stencil_state |-> "StencilOpState", compare_mask |-> "int",
            write_mask |-> "int", enable_depth_test |-> "bool",
            enable_depth_write |-> "bool", enable_stencil_test |-> "bool",
            padding1 |-> "int", padding2 |-> "int", padding3 |-> "int"]
      [] ty = "GraphicsPipelineTargetInfo" ->
           [color_target_descriptions |-> "slice", num_color_targets |-> "int",
            depth_stencil_format |-> "tag", has_depth_stencil_target |-> "bool",
            padding1 |-> "int", padding2 |-> "int", padding3 |-> "int"]
      [] ty = "VertexAttribute" ->
           [location |-> "int", buffer_slot |-> "int", format |-> "tag",
            offset |-> "int"]
      [] ty = "ColorTargetBlendState" ->
           [src_color_blendfactor |-> "tag", dst_color_blendfactor |-> "tag",
            color_blend_op |-> "tag", src_alpha_blendfactor |-> "tag",
            dst_alpha_blendfactor |-> "tag", alpha_blend_op |-> "tag",
            color_write_mask |-> "tag", enable_blend |-> "bool",
            enable_color_write_mask |-> "bool", padding1 |-> "int", padding2 |-> "int"]
      [] ty = "ColorTargetDescription" ->
           [format |-> "tag", blend_state |-> "ColorTargetBlendState"]
      [] ty = "TextureSamplerBinding" ->
           [texture |-> "handle", sampler |-> "handle"]
      [] ty = "StorageTextureReadWriteBinding" ->
           [texture |-> "handle", mip_level |-> "int", layer |-> "int", cycle |-> "bool",
            padding1 |-> "int", padding2 |-> "int", padding3 |-> "int"]
      [] ty = "StorageBufferReadWriteBinding" ->
           [buffer |-> "handle", cycle |-> "bool", padding1 |-> "int",
            padding2 |-> "int", padding3 |-> "int"]
      [] ty = "TextureLocation" ->
           [texture |-> "handle", mip_level |-> "int", layer |-> "int", x |-> "int",
            y |-> "int", z |-> "int"]

\* The fields of each record that have a setter: the field each with_X is
\* named for.
SetterFields(ty) ==
    CASE ty = "DepthStencilTargetInfo" ->
           {"texture", "clear_depth", "load_op", "store_op", "stencil_load_op",
            "stencil_store_op", "cycle", "clear_stencil"}
      [] ty = "ColorTargetInfo" ->
           {"texture", "mip_level", "layer_or_depth_plane", "clear_color", "load_op",
            "store_op", "resolve_texture", "resolve_mip_level", "resolve_layer", "cycle",
            "cycle_resolve_texture"}
      [] ty = "TextureCreateInfo" ->
           {"type", "format", "usage", "width", "height", "layer_count_or_depth",
            "num_levels", "sample_count"}
      [] ty = "SamplerCreateInfo" ->
           {"min_filter", "mag_filter", "mipmap_mode", "address_mode_u",
            "address_mode_v", "address_mode_w", "mip_lod_bias", "max_anisotropy",
            "compare_op", "min_lod", "max_lod", "enable_anisotropy", "enable_compare"}
      [] ty = "TextureRegion" ->
           {"texture", "mip_level", "layer", "x", "y", "z", "w", "h", "d"}
      [] ty = "TextureTransferInfo" ->
           {"transfer_buffer", "offset", "pixels_per_row", "rows_per_layer"}
      [] ty = "BufferBinding" ->
           {"buffer", "offset"}
      [] ty = "TransferBufferLocation" ->
           {"transfer_buffer", "offset"}
      [] ty = "BufferLocation" ->
           {"buffer", "offset"}
      [] ty = "BufferRegion" ->
           {"buffer", "offset", "size"}
      [] ty = "VertexBufferDescription" ->
           {"slot", "pitch", "input_rate"}
      [] ty = "VertexInputState" ->
           {"vertex_buffer_descriptions", "vertex_attributes"}
      [] ty = "RasterizerState" ->
           {"fill_mode", "cull_mode", "front_face", "depth_bias_constant_factor",
            "depth_bias_clamp", "depth_bias_slope_factor", "enable_depth_bias",
            "enable_depth_clip"}
      [] ty = "StencilOpState" ->
           {"compare_op", "fail_op", "pass_op", "depth_fail_op"}
      [] ty = "DepthStencilState" ->
           {"compare_op", "back_stencil_state", "front_stencil_state", "compare_mask",
            "write_mask", "enable_depth_test", "enable_depth_write",
            "enable_stencil_test"}
      [] ty = "GraphicsPipelineTargetInfo" ->
           {"color_target_descriptions", "depth_stencil_format",
            "has_depth_stencil_target"}
      [] ty = "VertexAttribute" ->
           {"location", "buffer_slot", "format", "offset"}
      [] ty = "ColorTargetBlendState" ->
           {"src_color_blendfactor", "dst_color_blendfactor", "color_blend_op",
            "src_alpha_blendfactor", "dst_alpha_blendfactor", "alpha_blend_op",
            "color_write_mask", "enable_blend", "enable_color_write_mask"}
      [] ty = "ColorTargetDescription" ->
           {"format", "blend_state"}
      [] ty = "TextureSamplerBinding" ->
           {"texture", "sampler"}
      [] ty = "StorageTextureReadWriteBinding" ->
           {"texture", "mip_level", "layer", "cycle"}
      [] ty = "StorageBufferReadWriteBinding" ->
           {"buffer", "cycle"}
      [] ty = "TextureLocation" ->
           {"texture", "mip_level", "layer", "x", "y", "z"}

\* The setter calls of each record with the arguments they are made with:
\* the setter, the field it is named for, the argument.
SetterCalls(ty) ==
    CASE ty = "DepthStencilTargetInfo" ->
           {<<"DepthStencilTargetInfo::with_texture", "texture", v>> : v \in Live("Texture")}
           \cup {<<"DepthStencilTargetInfo::with_clear_depth", "clear_depth", v>> : v \in F32Inputs}
           \cup {<<"DepthStencilTargetInfo::with_load_op", "load_op", v>> : v \in LoadOpInputs}
           \cup {<<"DepthStencilTargetInfo::with_store_op", "store_op", v>> : v \in StoreOpInputs}
           \cup {<<"DepthStencilTargetInfo::with_stencil_load_op", "stencil_load_op", v>> : v \in LoadOpInputs}
           \cup {<<"DepthStencilTargetInfo::with_stencil_store_op", "stencil_store_op", v>> : v \in StoreOpInputs}
           \cup {<<"DepthStencilTargetInfo::with_cycle", "cycle", v>> : v \in BOOLEAN}
           \cup {<<"DepthStencilTargetInfo::with_clear_stencil", "clear_stencil", v>> : v \in U8Inputs}
      [] ty = "ColorTargetInfo" ->
           {<<"ColorTargetInfo::with_texture", "texture", v>> : v \in Live("Texture")}
           \cup {<<"ColorTargetInfo::with_mip_level", "mip_level", v>> : v \in U32Inputs}
           \cup {<<"ColorTargetInfo::with_layer_or_depth_plane", "layer_or_depth_plane", v>> : v \in U32Inputs}
           \cup {<<"ColorTargetInfo::with_clear_color", "clear_color", v>> : v \in ColorInputs}
           \cup {<<"ColorTargetInfo::with_load_op", "load_op", v>> : v \in LoadOpInputs}
           \cup {<<"ColorTargetInfo::with_store_op", "store_op", v>> : v \in StoreOpInputs}
           \cup {<<"ColorTargetInfo::with_resolve_texture", "resolve_texture", v>> : v \in Live("Texture")}
           \cup {<<"ColorTargetInfo::with_resolve_mip_level", "resolve_mip_level", v>> : v \in U32Inputs}
           \cup {<<"ColorTargetInfo::with_resolve_layer", "resolve_layer", v>> : v \in U32Inputs}
           \cup {<<"ColorTargetInfo::with_cycle", "cycle", v>> : v \in BOOLEAN}
           \cup {<<"ColorTargetInfo::with_cycle_resolve_texture", "cycle_resolve_texture", v>> : v \in BOOLEAN}
      [] ty = "TextureCreateInfo" ->
           {<<"TextureCreateInfo::with_type", "type", v>> : v \in EnumInputs("TextureType")}
           \cup {<<"TextureCreateInfo::with_format", "format", v>> : v \in TextureFormatInputs}
           \cup {<<"TextureCreateInfo::with_usage", "usage", v>> : v \in FlagsInputs}
           \cup {<<"TextureCreateInfo::with_width", "width", v>> : v \in U32Inputs}
           \cup {<<"TextureCreateInfo::with_height", "height", v>> : v \in U32Inputs}
           \cup {<<"TextureCreateInfo::with_layer_count_or_depth", "layer_count_or_depth", v>> : v \in U32Inputs}
           \cup {<<"TextureCreateInfo::with_num_levels", "num_levels", v>> : v \in U32Inputs}
           \cup {<<"TextureCreateInfo::with_sample_count", "sample_count", v>> : v \in EnumInputs("SampleCount")}
      [] ty = "SamplerCreateInfo" ->
           {<<"SamplerCreateInfo::with_min_filter", "min_filter", v>> : v \in EnumInputs("Filter")}
           \cup {<<"SamplerCreateInfo::with_mag_filter", "mag_filter", v>> : v \in EnumInputs("Filter")}
           \cup {<<"SamplerCreateInfo::with_mipmap_mode", "mipmap_mode", v>> : v \in EnumInputs("SamplerMipmapMode")}
           \cup {<<"SamplerCreateInfo::with_address_mode_u", "address_mode_u", v>> : v \in EnumInputs("SamplerAddressMode")}
           \cup {<<"SamplerCreateInfo::with_address_mode_v", "address_mode_v", v>> : v \in EnumInputs("SamplerAddressMode")}
           \cup {<<"SamplerCreateInfo::with_address_mode_w", "address_mode_w", v>> : v \in EnumInputs("SamplerAddressMode")}
           \cup {<<"SamplerCreateInfo::with_mip_lod_bias", "mip_lod_bias", v>> : v \in F32Inputs}
           \cup {<<"SamplerCreateInfo::with_max_anisotropy", "max_anisotropy", v>> : v \in F32Inputs}
           \cup {<<"SamplerCreateInfo::with_compare_op", "compare_op", v>> : v \in EnumInputs("CompareOp")}
           \cup {<<"SamplerCreateInfo::with_min_lod", "min_lod", v>> : v \in F32Inputs}
           \cup {<<"SamplerCreateInfo::with_max_lod", "max_lod", v>> : v \in F32Inputs}
           \cup {<<"SamplerCreateInfo::with_enable_anisotropy", "enable_anisotropy", v>> : v \in BOOLEAN}
           \cup {<<"SamplerCreateInfo::with_enable_compare", "enable_compare", v>> : v \in BOOLEAN}
      [] ty = "TextureRegion" ->
           {<<"TextureRegion::with_texture", "texture", v>> : v \in Live("Texture")}
           \cup {<<"TextureRegion::with_mip_level", "mip_level", v>> : v \in U32Inputs}
           \cup {<<"TextureRegion::with_layer", "layer", v>> : v \in U32Inputs}
           \cup {<<"TextureRegion::with_x", "x", v>> : v \in U32Inputs}
           \cup {<<"TextureRegion::with_y", "y", v>> : v \in U32Inputs}
           \cup {<<"TextureRegion::with_z", "z", v>> : v \in U32Inputs}
           \cup {<<"TextureRegion::with_width", "w", v>> : v \in U32Inputs}
           \cup {<<"TextureRegion::with_height", "h", v>> : v \in U32Inputs}
           \cup {<<"TextureRegion::with_depth", "d", v>> : v \in U32Inputs}
      [] ty = "TextureTransferInfo" ->
           {<<"TextureTransferInfo::with_transfer_buffer", "transfer_buffer", v>> : v \in Live("TransferBuffer")}
           \cup {<<"TextureTransferInfo::with_offset", "offset", v>> : v \in U32Inputs}
           \cup {<<"TextureTransferInfo::with_pixels_per_row", "pixels_per_row", v>> : v \in U32Inputs}
           \cup {<<"TextureTransferInfo::with_rows_per_layer", "rows_per_layer", v>> : v \in U32Inputs}
      [] ty = "BufferBinding" ->
           {<<"BufferBinding::with_buffer", "buffer", v>> : v \in Live("Buffer")}
           \cup {<<"BufferBinding::with_offset", "offset", v>> : v \in U32Inputs}
      [] ty = "TransferBufferLocation" ->
           {<<"TransferBufferLocation::with_transfer_buffer", "transfer_buffer", v>> : v \in Live("TransferBuffer")}
           \cup {<<"TransferBufferLocation::with_offset", "offset", v>> : v \in U32Inputs}
      [] ty = "BufferLocation" ->
           {<<"BufferLocation::with_buffer", "buffer", v>> : v \in Live("Buffer")}
           \cup {<<"BufferLocation::with_offset", "offset", v>> : v \in U32Inputs}
      [] ty = "BufferRegion" ->
           {<<"BufferRegion::with_buffer", "buffer", v>> : v \in Live("Buffer")}
           \cup {<<"BufferRegion::with_offset", "offset", v>> : v \in U32Inputs}
           \cup {<<"BufferRegion::with_size", "size", v>> : v \in U32Inputs}
      [] ty = "VertexBufferDescription" ->
           {<<"VertexBufferDescription::with_slot", "slot", v>> : v \in U32Inputs}
           \cup {<<"VertexBufferDescription::with_pitch", "pitch", v>> : v \in U32Inputs}
           \cup {<<"VertexBufferDescription::with_input_rate", "input_rate", v>> : v \in EnumInputs("VertexInputRate")}
      [] ty = "VertexInputState" ->
           {<<"VertexInputState::with_vertex_buffer_descriptions", "vertex_buffer_descriptions", v>> : v \in Live("[VertexBufferDescription]")}
           \cup {<<"VertexInputState::with_vertex_attributes", "vertex_attributes", v>> : v \in Live("[VertexAttribute]")}
      [] ty = "RasterizerState" ->
           {<<"RasterizerState::with_fill_mode", "fill_mode", v>> : v \in EnumInputs("FillMode")}
           \cup {<<"RasterizerState::with_cull_mode", "cull_mode", v>> : v \in EnumInputs("CullMode")}
           \cup {<<"RasterizerState::with_front_face", "front_face", v>> : v \in EnumInputs("FrontFace")}
           \cup {<<"RasterizerState::with_depth_bias_constant_factor", "depth_bias_constant_factor", v>> : v \in F32Inputs}
           \cup {<<"RasterizerState::with_depth_bias_clamp", "depth_bias_clamp", v>> : v \in F32Inputs}
           \cup {<<"RasterizerState::with_depth_slope_factor", "depth_bias_slope_factor", v>> : v \in F32Inputs}
           \cup {<<"RasterizerState::with_enable_depth_bias", "enable_depth_bias", v>> : v \in BOOLEAN}
           \cup {<<"RasterizerState::with_enable_depth_clip", "enable_depth_clip", v>> : v \in BOOLEAN}
      [] ty = "StencilOpState" ->
           {<<"StencilOpState::with_compare_op", "compare_op", v>> : v \in EnumInputs("CompareOp")}
           \cup {<<"StencilOpState::with_fail_op", "fail_op", v>> : v \in EnumInputs("StencilOp")}
           \cup {<<"StencilOpState::with_pass_op", "pass_op", v>> : v \in EnumInputs("StencilOp")}
           \cup {<<"StencilOpState::with_depth_fail_op", "depth_fail_op", v>> : v \in EnumInputs("StencilOp")}
      [] ty = "DepthStencilState" ->
           {<<"DepthStencilState::with_compare_op", "compare_op", v>> : v \in EnumInputs("CompareOp")}
           \cup {<<"DepthStencilState::with_back_stencil_state", "back_stencil_state", v>> : v \in StencilOpStateInputs}
           \cup {<<"DepthStencilState::with_front_stencil_state", "front_stencil_state", v>> : v \in StencilOpStateInputs}
           \cup {<<"DepthStencilState::with_compare_mask", "compare_mask", v>> : v \in U8Inputs}
           \cup {<<"DepthStencilState::with_write_mask", "write_mask", v>> : v \in U8Inputs}
           \cup {<<"DepthStencilState::with_enable_depth_test", "enable_depth_test", v>> : v \in BOOLEAN}
           \cup {<<"DepthStencilState::with_enable_depth_write", "enable_depth_write", v>> : v \in BOOLEAN}
           \cup {<<"DepthStencilState::with_enable_stencil_test", "enable_stencil_test", v>> : v \in BOOLEAN}
      [] ty = "GraphicsPipelineTargetInfo" ->
           {<<"GraphicsPipelineTargetInfo::with_color_target_descriptions", "color_target_descriptions", v>> : v \in Live("[ColorTargetDescription]")}
           \cup {<<"GraphicsPipelineTargetInfo::with_depth_stencil_format", "depth_stencil_format", v>> : v \in TextureFormatInputs}
           \cup {<<"GraphicsPipelineTargetInfo::with_has_depth_stencil_target", "has_depth_stencil_target", v>> : v \in BOOLEAN}
      [] ty = "VertexAttribute" ->
           {<<"VertexAttribute::with_location", "location", v>> : v \in U32Inputs}
           \cup {<<"VertexAttribute::with_buffer_slot", "buffer_slot", v>> : v \in U32Inputs}
           \cup {<<"VertexAttribute::with_format", "format", v>> : v \in EnumInputs("VertexElementFormat")}
           \cup {<<"VertexAttribute::with_offset", "offset", v>> : v \in U32Inputs}
      [] ty = "ColorTargetBlendState" ->
           {<<"ColorTargetBlendState::with_src_color_blendfactor", "src_color_blendfactor", v>> : v \in EnumInputs("BlendFactor")}
           \cup {<<"ColorTargetBlendState::with_dst_color_blendfactor", "dst_color_blendfactor", v>> : v \in EnumInputs("BlendFactor")}
           \cup {<<"ColorTargetBlendState::with_color_blend_op", "color_blend_op", v>> : v \in EnumInputs("BlendOp")}
           \cup {<<"ColorTargetBlendState::with_src_alpha_blendfactor", "src_alpha_blendfactor", v>> : v \in EnumInputs("BlendFactor")}
           \cup {<<"ColorTargetBlendState::with_dst_alpha_blendfactor", "dst_alpha_blendfactor", v>> : v \in EnumInputs("BlendFactor")}
           \cup {<<"ColorTargetBlendState::with_alpha_blend_op", "alpha_blend_op", v>> : v \in EnumInputs("BlendOp")}
           \cup {<<"ColorTargetBlendState::with_color_write_mask", "color_write_mask", v>> : v \in FlagsInputs}
           \cup {<<"ColorTargetBlendState::with_enable_blend", "enable_blend", v>> : v \in BOOLEAN}
           \cup {<<"ColorTargetBlendState::with_enable_color_write_mask", "enable_color_write_mask", v>> : v \in BOOLEAN}
      [] ty = "ColorTargetDescription" ->
           {<<"ColorTargetDescription::with_format", "format", v>> : v \in TextureFormatInputs}
           \cup {<<"ColorTargetDescription::with_blend_state", "blend_state", v>> : v \in ColorTargetBlendStateInputs}
      [] ty = "TextureSamplerBinding" ->
           {<<"TextureSamplerBinding::with_texture", "texture", v>> : v \in Live("Texture")}
           \cup {<<"TextureSamplerBinding::with_sampler", "sampler", v>> : v \in Live("Sampler")}
      [] ty = "StorageTextureReadWriteBinding" ->
           {<<"StorageTextureReadWriteBinding::with_texture", "texture", v>> : v \in Live("Texture")}
           \cup {<<"StorageTextureReadWriteBinding::with_mip_level", "mip_level", v>> : v \in U32Inputs}
           \cup {<<"StorageTextureReadWriteBinding::with_layer", "layer", v>> : v \in U32Inputs}
           \cup {<<"StorageTextureReadWriteBinding::with_cycle", "cycle", v>> : v \in BOOLEAN}
      [] ty = "StorageBufferReadWriteBinding" ->
           {<<"StorageBufferReadWriteBinding::with_buffer", "buffer", v>> : v \in Live("Buffer")}
           \cup {<<"StorageBufferReadWriteBinding::with_cycle", "cycle", v>> : v \in BOOLEAN}
      [] ty = "TextureLocation" ->
           {<<"TextureLocation::with_texture", "texture", v>> : v \in Live("Texture")}
           \cup {<<"TextureLocation::with_mip_level", "mip_level", v>> : v \in U32Inputs}
           \cup {<<"TextureLocation::with_layer", "layer", v>> : v \in U32Inputs}
           \cup {<<"TextureLocation::with_x", "x", v>> : v \in U32Inputs}
           \cup {<<"TextureLocation::with_y", "y", v>> : v \in U32Inputs}
           \cup {<<"TextureLocation::with_z", "z", v>> : v \in U32Inputs}

\* The descriptor the setter call c gives when made on self.
Apply(self, c) ==
    CASE c[1] = "DepthStencilTargetInfo::with_texture" -> DepthStencilTargetInfo_with_texture(self, c[3])
      [] c[1] = "DepthStencilTargetInfo::with_clear_depth" -> DepthStencilTargetInfo_with_clear_depth(self, c[3])
      [] c[1] = "DepthStencilTargetInfo::with_load_op" -> DepthStencilTargetInfo_with_load_op(self, c[3])
      [] c[1] = "DepthStencilTargetInfo::with_store_op" -> DepthStencilTargetInfo_with_store_op(self, c[3])
      [] c[1] = "DepthStencilTargetInfo::with_stencil_load_op" -> DepthStencilTargetInfo_with_stencil_load_op(self, c[3])
      [] c[1] = "DepthStencilTargetInfo::with_stencil_store_op" -> DepthStencilTargetInfo_with_stencil_store_op(self, c[3])
      [] c[1] = "DepthStencilTargetInfo::with_cycle" -> DepthStencilTargetInfo_with_cycle(self, c[3])
      [] c[1] = "DepthStencilTargetInfo::with_clear_stencil" -> DepthStencilTargetInfo_with_clear_stencil(self, c[3])
      [] c[1] = "ColorTargetInfo::with_texture" -> ColorTargetInfo_with_texture(self, c[3])
      [] c[1] = "ColorTargetInfo::with_mip_level" -> ColorTargetInfo_with_mip_level(self, c[3])
      [] c[1] = "ColorTargetInfo::with_layer_or_depth_plane" -> ColorTargetInfo_with_layer_or_depth_plane(self, c[3])
      [] c[1] = "ColorTargetInfo::with_clear_color" -> ColorTargetInfo_with_clear_color(self, c[3])
      [] c[1] = "ColorTargetInfo::with_load_op" -> ColorTargetInfo_with_load_op(self, c[3])
      [] c[1] = "ColorTargetInfo::with_store_op" -> ColorTargetInfo_with_store_op(self, c[3])
      [] c[1] = "ColorTargetInfo::with_resolve_texture" -> ColorTargetInfo_with_resolve_texture(self, c[3])
      [] c[1] = "ColorTargetInfo::with_resolve_mip_level" -> ColorTargetInfo_with_resolve_mip_level(self, c[3])
      [] c[1] = "ColorTargetInfo::with_resolve_layer" -> ColorTargetInfo_with_resolve_layer(self, c[3])
      [] c[1] = "ColorTargetInfo::with_cycle" -> ColorTargetInfo_with_cycle(self, c[3])
      [] c[1] = "ColorTargetInfo::with_cycle_resolve_texture" -> ColorTargetInfo_with_cycle_resolve_texture(self, c[3])
      [] c[1] = "TextureCreateInfo::with_type" -> TextureCreateInfo_with_type(self, c[3])
      [] c[1] = "TextureCreateInfo::with_format" -> TextureCreateInfo_with_format(self, c[3])
      [] c[1] = "TextureCreateInfo::with_usage" -> TextureCreateInfo_with_usage(self, c[3])
      [] c[1] = "TextureCreateInfo::with_width" -> TextureCreateInfo_with_width(self, c[3])
      [] c[1] = "TextureCreateInfo::with_height" -> TextureCreateInfo_with_height(self, c[3])
      [] c[1] = "TextureCreateInfo::with_layer_count_or_depth" -> TextureCreateInfo_with_layer_count_or_depth(self, c[3])
      [] c[1] = "TextureCreateInfo::with_num_levels" -> TextureCreateInfo_with_num_levels(self, c[3])
      [] c[1] = "TextureCreateInfo::with_sample_count" -> TextureCreateInfo_with_sample_count(self, c[3])
      [] c[1] = "SamplerCreateInfo::with_min_filter" -> SamplerCreateInfo_with_min_filter(self, c[3])
      [] c[1] = "SamplerCreateInfo::with_mag_filter" -> SamplerCreateInfo_with_mag_filter(self, c[3])
      [] c[1] = "SamplerCreateInfo::with_mipmap_mode" -> SamplerCreateInfo_with_mipmap_mode(self, c[3])
      [] c[1] = "SamplerCreateInfo::with_address_mode_u" -> SamplerCreateInfo_with_address_mode_u(self, c[3])
      [] c[1] = "SamplerCreateInfo::with_address_mode_v" -> SamplerCreateInfo_with_address_mode_v(self, c[3])
      [] c[1] = "SamplerCreateInfo::with_address_mode_w" -> SamplerCreateInfo_with_address_mode_w(self, c[3])
      [] c[1] = "SamplerCreateInfo::with_mip_lod_bias" -> SamplerCreateInfo_with_mip_lod_bias(self, c[3])
      [] c[1] = "SamplerCreateInfo::with_max_anisotropy" -> SamplerCreateInfo_with_max_anisotropy(self, c[3])
      [] c[1] = "SamplerCreateInfo::with_compare_op" -> SamplerCreateInfo_with_compare_op(self, c[3])
      [] c[1] = "SamplerCreateInfo::with_min_lod" -> SamplerCreateInfo_with_min_lod(self, c[3])
      [] c[1] = "SamplerCreateInfo::with_max_lod" -> SamplerCreateInfo_with_max_lod(self, c[3])
      [] c[1] = "SamplerCreateInfo::with_enable_anisotropy" -> SamplerCreateInfo_with_enable_anisotropy(self, c[3])
      [] c[1] = "SamplerCreateInfo::with_enable_compare" -> SamplerCreateInfo_with_enable_compare(self, c[3])
      [] c[1] = "TextureRegion::with_texture" -> TextureRegion_with_texture(self, c[3])
      [] c[1] = "TextureRegion::with_mip_level" -> TextureRegion_with_mip_level(self, c[3])
      [] c[1] = "TextureRegion::with_layer" -> TextureRegion_with_layer(self, c[3])
      [] c[1] = "TextureRegion::with_x" -> TextureRegion_with_x(self, c[3])
      [] c[1] = "TextureRegion::with_y" -> TextureRegion_with_y(self, c[3])
      [] c[1] = "TextureRegion::with_z" -> TextureRegion_with_z(self, c[3])
      [] c[1] = "TextureRegion::with_width" -> TextureRegion_with_width(self, c[3])
      [] c[1] = "TextureRegion::with_height" -> TextureRegion_with_height(self, c[3])
      [] c[1] = "TextureRegion::with_depth" -> TextureRegion_with_depth(self, c[3])
      [] c[1] = "TextureTransferInfo::with_transfer_buffer" -> TextureTransferInfo_with_transfer_buffer(self, c[3])
      [] c[1] = "TextureTransferInfo::with_offset" -> TextureTransferInfo_with_offset(self, c[3])
      [] c[1] = "TextureTransferInfo::with_pixels_per_row" -> TextureTransferInfo_with_pixels_per_row(self, c[3])
      [] c[1] = "TextureTransferInfo::with_rows_per_layer" -> TextureTransferInfo_with_rows_per_layer(self, c[3])
      [] c[1] = "BufferBinding::with_buffer" -> BufferBinding_with_buffer(self, c[3])
      [] c[1] = "BufferBinding::with_offset" -> BufferBinding_with_offset(self, c[3])
      [] c[1] = "TransferBufferLocation::with_transfer_buffer" -> TransferBufferLocation_with_transfer_buffer(self, c[3])
      [] c[1] = "TransferBufferLocation::with_offset" -> TransferBufferLocation_with_offset(self, c[3])
      [] c[1] = "BufferLocation::with_buffer" -> BufferLocation_with_buffer(self, c[3])
      [] c[1] = "BufferLocation::with_offset" -> BufferLocation_with_offset(self, c[3])
      [] c[1] = "BufferRegion::with_buffer" -> BufferRegion_with_buffer(self, c[3])
      [] c[1] = "BufferRegion::with_offset" -> BufferRegion_with_offset(self, c[3])
      [] c[1] = "BufferRegion::with_size" -> BufferRegion_with_size(self, c[3])
      [] c[1] = "VertexBufferDescription::with_slot" -> VertexBufferDescription_with_slot(self, c[3])
      [] c[1] = "VertexBufferDescription::with_pitch" -> VertexBufferDescription_with_pitch(self, c[3])
      [] c[1] = "VertexBufferDescription::with_input_rate" -> VertexBufferDescription_with_input_rate(self, c[3])
      [] c[1] = "VertexInputState::with_vertex_buffer_descriptions" -> VertexInputState_with_vertex_buffer_descriptions(self, c[3])
      [] c[1] = "VertexInputState::with_vertex_attributes" -> VertexInputState_with_vertex_attributes(self, c[3])
      [] c[1] = "RasterizerState::with_fill_mode" -> RasterizerState_with_fill_mode(self, c[3])
      [] c[1] = "RasterizerState::with_cull_mode" -> RasterizerState_with_cull_mode(self, c[3])
      [] c[1] = "RasterizerState::with_front_face" -> RasterizerState_with_front_face(self, c[3])
      [] c[1] = "RasterizerState::with_depth_bias_constant_factor" -> RasterizerState_with_depth_bias_constant_factor(self, c[3])
      [] c[1] = "RasterizerState::with_depth_bias_clamp" -> RasterizerState_with_depth_bias_clamp(self, c[3])
      [] c[1] = "RasterizerState::with_depth_slope_factor" -> RasterizerState_with_depth_slope_factor(self, c[3])
      [] c[1] = "RasterizerState::with_enable_depth_bias" -> RasterizerState_with_enable_depth_bias(self, c[3])
      [] c[1] = "RasterizerState::with_enable_depth_clip" -> RasterizerState_with_enable_depth_clip(self, c[3])
      [] c[1] = "StencilOpState::with_compare_op" -> StencilOpState_with_compare_op(self, c[3])
      [] c[1] = "StencilOpState::with_fail_op" -> StencilOpState_with_fail_op(self, c[3])
      [] c[1] = "StencilOpState::with_pass_op" -> StencilOpState_with_pass_op(self, c[3])
      [] c[1] = "StencilOpState::with_depth_fail_op" -> StencilOpState_with_depth_fail_op(self, c[3])
      [] c[1] = "DepthStencilState::with_compare_op" -> DepthStencilState_with_compare_op(self, c[3])
      [] c[1] = "DepthStencilState::with_back_stencil_state" -> DepthStencilState_with_back_stencil_state(self, c[3])
      [] c[1] = "DepthStencilState::with_front_stencil_state" -> DepthStencilState_with_front_stencil_state(self, c[3])
      [] c[1] = "DepthStencilState::with_compare_mask" -> DepthStencilState_with_compare_mask(self, c[3])
      [] c[1] = "DepthStencilState::with_write_mask" -> DepthStencilState_with_write_mask(self, c[3])
      [] c[1] = "DepthStencilState::with_enable_depth_test" -> DepthStencilState_with_enable_depth_test(self, c[3])
      [] c[1] = "DepthStencilState::with_enable_depth_write" -> DepthStencilState_with_enable_depth_write(self, c[3])
      [] c[1] = "DepthStencilState::with_enable_stencil_test" -> DepthStencilState_with_enable_stencil_test(self, c[3])
      [] c[1] = "GraphicsPipelineTargetInfo::with_color_target_descriptions" -> GraphicsPipelineTargetInfo_with_color_target_descriptions(self, c[3])
      [] c[1] = "GraphicsPipelineTargetInfo::with_depth_stencil_format" -> GraphicsPipelineTargetInfo_with_depth_stencil_format(self, c[3])
      [] c[1] = "GraphicsPipelineTargetInfo::with_has_depth_stencil_target" -> GraphicsPipelineTargetInfo_with_has_depth_stencil_target(self, c[3])
      [] c[1] = "VertexAttribute::with_location" -> VertexAttribute_with_location(self, c[3])
      [] c[1] = "VertexAttribute::with_buffer_slot" -> VertexAttribute_with_buffer_slot(self, c[3])
      [] c[1] = "VertexAttribute::with_format" -> VertexAttribute_with_format(self, c[3])
      [] c[1] = "VertexAttribute::with_offset" -> VertexAttribute_with_offset(self, c[3])
      [] c[1] = "ColorTargetBlendState::with_src_color_blendfactor" -> ColorTargetBlendState_with_src_color_blendfactor(self, c[3])
      [] c[1] = "ColorTargetBlendState::with_dst_color_blendfactor" -> ColorTargetBlendState_with_dst_color_blendfactor(self, c[3])
      [] c[1] = "ColorTargetBlendState::with_color_blend_op" -> ColorTargetBlendState_with_color_blend_op(self, c[3])
      [] c[1] = "ColorTargetBlendState::with_src_alpha_blendfactor" -> ColorTargetBlendState_with_src_alpha_blendfactor(self, c[3])
      [] c[1] = "ColorTargetBlendState::with_dst_alpha_blendfactor" -> ColorTargetBlendState_with_dst_alpha_blendfactor(self, c[3])
      [] c[1] = "ColorTargetBlendState::with_alpha_blend_op" -> ColorTargetBlendState_with_alpha_blend_op(self, c[3])
      [] c[1] = "ColorTargetBlendState::with_color_write_mask" -> ColorTargetBlendState_with_color_write_mask(self, c[3])
      [] c[1] = "ColorTargetBlendState::with_enable_blend" -> ColorTargetBlendState_with_enable_blend(self, c[3])
      [] c[1] = "ColorTargetBlendState::with_enable_color_write_mask" -> ColorTargetBlendState_with_enable_color_write_mask(self, c[3])
      [] c[1] = "ColorTargetDescription::with_format" -> ColorTargetDescription_with_format(self, c[3])
      [] c[1] = "ColorTargetDescription::with_blend_state" -> ColorTargetDescription_with_blend_state(self, c[3])
      [] c[1] = "TextureSamplerBinding::with_texture" -> TextureSamplerBinding_with_texture(self, c[3])
      [] c[1] = "TextureSamplerBinding::with_sampler" -> TextureSamplerBinding_with_sampler(self, c[3])
      [] c[1] = "StorageTextureReadWriteBinding::with_texture" -> StorageTextureReadWriteBinding_with_texture(self, c[3])
      [] c[1] = "StorageTextureReadWriteBinding::with_mip_level" -> StorageTextureReadWriteBinding_with_mip_level(self, c[3])
      [] c[1] = "StorageTextureReadWriteBinding::with_layer" -> StorageTextureReadWriteBinding_with_layer(self, c[3])
      [] c[1] = "StorageTextureReadWriteBinding::with_cycle" -> StorageTextureReadWriteBinding_with_cycle(self, c[3])
      [] c[1] = "StorageBufferReadWriteBinding::with_buffer" -> StorageBufferReadWriteBinding_with_buffer(self, c[3])
      [] c[1] = "StorageBufferReadWriteBinding::with_cycle" -> StorageBufferReadWriteBinding_with_cycle(self, c[3])
      [] c[1] = "TextureLocation::with_texture" -> TextureLocation_with_texture(self, c[3])
      [] c[1] = "TextureLocation::with_mip_level" -> TextureLocation_with_mip_level(self, c[3])
      [] c[1] = "TextureLocation::with_layer" -> TextureLocation_with_layer(self, c[3])
      [] c[1] = "TextureLocation::with_x" -> TextureLocation_with_x(self, c[3])
      [] c[1] = "TextureLocation::with_y" -> TextureLocation_with_y(self, c[3])
      [] c[1] = "TextureLocation::with_z" -> TextureLocation_with_z(self, c[3])

\* ------------------------------------------------------------------ claims: builders

Channels == {"r", "g", "b", "a"}

\* Whether v is the zero of its kind: 0, 0.0, false, the variant numbered 0
\* (the first one declared, in every enum of SDL_gpu.h), the null pointer, or
\* a nested record all of whose fields are.
RECURSIVE IsZero(_, _)
IsZero(kind, v) ==
    CASE kind \in {"int", "tag"} -> v = 0
      [] kind \in {"handle", "slice"} -> v = NULL
      [] kind = "f32" -> v = F32Zero
      [] kind = "bool" -> v = FALSE
      [] kind = "color" -> \A ch \in Channels : v[ch] = F32Zero
      [] OTHER -> /\ DOMAIN v = DOMAIN FieldKinds(kind)
                  /\ \A f \in DOMAIN v : IsZero(FieldKinds(kind)[f], v[f])

\* C1: for every descriptor type, the record new() returns, before any setter
\* is called on it, has every numeric field zero, every boolean field false
\* and every enum field at its first variant (and every pointer null).
C1_NewIsZero ==
    call.step = "new" => IsZero(d.ty, d.inner) /\ d.marker = {}

\* new() was called after another descriptor had been built, here for a type
\* with nested records.
C1_Witness ==
    /\ call.step = "new"
    /\ d.ty = "DepthStencilState"
    /\ IsZero("StencilOpState", d.inner.front_stencil_state)

\* What a setter stores for an argument of each kind.
Stored(kind, arg) ==
    CASE kind \in {"int", "tag", "f32", "bool"} -> arg
      [] kind = "enum" -> arg.disc
      [] kind = "flags" -> arg[1]
      [] kind \in {"handle", "slice"} -> arg.raw
      [] kind = "nested" -> arg.inner
      [] kind = "color" -> [ch \in Channels |-> f32_div(arg[ch], 255)]

\* The fields of before and after other than those in written are the same.
SameBut(before, after, written) ==
    /\ DOMAIN after = DOMAIN before
    /\ \A f \in DOMAIN before \ written : after[f] = before[f]

\* The count field that goes with each pointer-to-array field.
CountField(named) ==
    CASE named = "vertex_buffer_descriptions" -> "num_vertex_buffers"
      [] named = "vertex_attributes" -> "num_vertex_attributes"
      [] named = "color_target_descriptions" -> "num_color_targets"

\* C2 as stated: with_X(v) sets exactly one field, X, and every other field
\* keeps its value.
C2_OneField_AsStated ==
    [][call'.step = "setter" =>
          /\ d'.ty = d.ty
          /\ d'.inner[call'.named] = Stored(call'.kind, call'.arg)
          /\ SameBut(d.inner, d'.inner, {call'.named})]_vars

\* C2: with_X(v) sets the field X to (the stored form of) v and every other
\* field keeps its value, except that a setter taking a slice sets two
\* fields: the pointer X and the count that goes with it, to the slice's
\* length as u32.
C2_OneFieldOrSlice ==
    [][call'.step = "setter" =>
          /\ d'.ty = d.ty
          /\ d'.inner[call'.named] = Stored(call'.kind, call'.arg)
          /\ IF call'.kind = "slice"
             THEN /\ d'.inner[CountField(call'.named)] = call'.arg.len.lo
                  /\ SameBut(d.inner, d'.inner, {call'.named, CountField(call'.named)})
             ELSE SameBut(d.inner, d'.inner, {call'.named})]_vars

\* A slice setter was the second setter called on a descriptor, with a slice
\* of two elements.
C2_Witness ==
    /\ call.step = "setter"
    /\ call.kind = "slice"
    /\ ncalls = 2
    /\ d.inner[CountField(call.named)] = 2

\* The pointers a descriptor holds: its handle and slice fields that are not null.
Pointers(desc) ==
    {desc.inner[f] : f \in {g \in DOMAIN desc.inner :
                               /\ FieldKinds(desc.ty)[g] \in {"handle", "slice"}
                               /\ desc.inner[g] # NULL}}

\* C8: every handle or pointer a live descriptor holds, if not null, refers to
\* a resource that is alive.
C8_ReferencedAlive ==
    d.ty # "none" => \A p \in Pointers(d) : \E r \in alive : r.raw = p

\* A descriptor holds a pointer while resources have been dropped.
C8_Witness ==
    /\ d.ty # "none"
    /\ Pointers(d) # {}
    /\ Cardinality(alive) + MaxDropped = Cardinality(Resources)

\* Whether the f32 v is c/255 rounded to nearest: v = m * 2^e with m of 24
\* bits and 2 * |255 * m - c * 2^-e| <= 255.  The products are taken on the
\* two halves of m, m = mh * 2^12 + ml, to stay within 32 bits.
NearestTo255th(v, c) ==
    IF c = 0 THEN v = F32Zero
    ELSE /\ v.m >= 2^23 /\ v.m < 2^24
         /\ v.e <= 0 - 23 /\ v.e >= 0 - 31
         /\ LET k == 0 - v.e
                mh == v.m \div 2^12
                ml == v.m % 2^12
                hi == 255 * mh - c * 2^(k - 12)
            IN  /\ hi >= 0 - 255 /\ hi <= 0
                /\ 2 * (hi * 2^12 + 255 * ml) <= 255
                /\ 2 * (hi * 2^12 + 255 * ml) >= 0 - 255

\* Whether the f32 v lies in [0.0, 1.0].
InUnitInterval(v) ==
    \/ v = F32Zero
    \/ v.m > 0 /\ v.e <= 0 - 24 /\ v.m < 2^24
    \/ v = F32One

\* C9: with_clear_color stores each channel c as c / 255.0: 255 gives exactly
\* 1.0, 0 gives exactly 0.0, every c gives the f32 nearest to c/255, and
\* every stored channel lies in [0.0, 1.0].
C9_ClearColor ==
    (call.step = "setter" /\ call.fn = "ColorTargetInfo::with_clear_color") =>
        \A ch \in Channels :
            LET c == call.arg[ch]
                v == d.inner.clear_color[ch]
            IN  /\ c = 255 => v = F32One
                /\ c = 0 => v = F32Zero
                /\ NearestTo255th(v, c)
                /\ InUnitInterval(v)

\* with_clear_color was called with 128, 0 and 255 among the channels.
C9_Witness ==
    /\ call.step = "setter"
    /\ call.fn = "ColorTargetInfo::with_clear_color"
    /\ call.arg.r = 128 /\ call.arg.g = 0 /\ call.arg.b = 255
    /\ d.inner.clear_color.r = F32(8421505, 0 - 24)
    /\ d.inner.clear_color.b = F32One

\* C12 as stated: no builder operation fails or validates.  new() gives a
\* descriptor of its type; a setter gives one of the same type with the
\* argument stored as supplied, for every argument and whatever the other
\* fields hold: with_store_op stores RESOLVE with or without a resolve
\* texture, with_location stores a location whether or not it was used
\* before, and a setter given a slice stores the slice's pointer and, as
\* the count, the slice's length, unaltered.
C12_NoValidation_AsStated ==
    /\ [][/\ call'.step = "new" => d'.ty = call'.fn /\ d'.ty # "none"
          /\ call'.step = "setter" =>
                /\ d'.ty = d.ty
                /\ d'.inner[call'.named] = Stored(call'.kind, call'.arg)
                /\ call'.kind = "slice" =>
                       USize(0, d'.inner[CountField(call'.named)]) = len(call'.arg)]_vars
    /\ [](d.ty = "ColorTargetInfo" =>
             \A store_op \in StoreOpInputs :
                 ColorTargetInfo_with_store_op(d, store_op).inner.store_op = store_op)
    /\ [](d.ty = "VertexAttribute" =>
             \A location \in U32Inputs :
                 VertexAttribute_with_location(d, location).inner.location = location)

\* C12 apart from the count of a slice: no builder operation fails or
\* validates.  new() gives a descriptor of its type; a setter gives one of
\* the same type with the argument stored in the field it names, whatever
\* the other fields hold: with_store_op stores RESOLVE with or without a
\* resolve texture, with_location stores a location whether or not it was
\* used before.
C12_NoValidation ==
    /\ [][/\ call'.step = "new" => d'.ty = call'.fn /\ d'.ty # "none"
          /\ call'.step = "setter" =>
                /\ d'.ty = d.ty
                /\ d'.inner[call'.named] = Stored(call'.kind, call'.arg)]_vars
    /\ [](d.ty = "ColorTargetInfo" =>
             \A store_op \in StoreOpInputs :
                 ColorTargetInfo_with_store_op(d, store_op).inner.store_op = store_op)
    /\ [](d.ty = "VertexAttribute" =>
             \A location \in U32Inputs :
                 VertexAttribute_with_location(d, location).inner.location = location)

\* with_store_op(RESOLVE) was called on a ColorTargetInfo without a resolve
\* texture, and the descriptor holds the invalid combination.
C12_Witness ==
    /\ call.step = "setter"
    /\ call.fn = "ColorTargetInfo::with_store_op"
    /\ d.inner.store_op = 2
    /\ d.inner.resolve_texture = NULL

\* The fields of a descriptor type that hold the handle of a resource.
HandleFields(ty) == {f \in DOMAIN FieldKinds(ty) : FieldKinds(ty)[f] = "handle"}

\* C18: a setter that takes a reference to a resource stores the handle of
\* the resource passed, which is the handle of no other resource, in the
\* field it names, and leaves the other handle fields of the descriptor as
\* they were.
C18_HandleOfThePassed ==
    [][(call'.step = "setter" /\ call'.kind = "handle") =>
          /\ call'.named \in HandleFields(d.ty)
          /\ d'.inner[call'.named] = call'.arg.raw
          /\ \A r \in Resources \ {call'.arg} : r.raw # d'.inner[call'.named]
          /\ \A f \in HandleFields(d.ty) \ {call'.named} : d'.inner[f] = d.inner[f]]_vars

\* with_resolve_texture was called on a ColorTargetInfo that held a texture:
\* the descriptor holds both, each in its field.
C18_Witness ==
    /\ call.step = "setter"
    /\ call.fn = "ColorTargetInfo::with_resolve_texture"
    /\ d.inner.texture = 2
    /\ d.inner.resolve_texture = 1

\* C19: a setter that takes one of the enums converts it when it assigns:
\* the field holds the number of the variant passed, an integer, and so the
\* number of no other variant of the enum.
C19_EnumNumberStored ==
    [][(call'.step = "setter" /\ call'.kind = "enum") =>
          /\ d'.inner[call'.named] \in 0..EnumLast(call'.arg.enum)
          /\ d'.inner[call'.named] = call'.arg.disc
          /\ \A v \in EnumInputs(call'.arg.enum) \ {call'.arg} :
                 v.disc # d'.inner[call'.named]]_vars

\* A setter was called with the last variant of BlendFactor.
C19_Witness ==
    /\ call.step = "setter"
    /\ call.kind = "enum"
    /\ call.arg = Variant("BlendFactor", 13)
    /\ d.inner[call.named] = 13

\* The fields of a descriptor type that hold the base pointer of a slice.
SliceFields(ty) == {f \in DOMAIN FieldKinds(ty) : FieldKinds(ty)[f] = "slice"}

\* C20 as stated: after any sequence of setters, the count stored with a
\* slice pointer is the number of elements of the slice whose base pointer
\* is stored, for slices of every length; with no slice set the pointer is
\* null and the count 0.
C20_CountIsLength_AsStated ==
    d.ty \in {"VertexInputState", "GraphicsPipelineTargetInfo"} =>
        \A f \in SliceFields(d.ty) :
            IF d.inner[f] = NULL
            THEN d.inner[CountField(f)] = 0
            ELSE \E r \in Resources :
                    /\ r.raw = d.inner[f]
                    /\ len(r) = USize(0, d.inner[CountField(f)])

\* The fields of a record that no setter writes: those no with_X is named
\* for, other than the count a slice setter writes with its pointer.
SetterlessFields(ty) ==
    DOMAIN FieldKinds(ty)
        \ (SetterFields(ty) \cup {CountField(f) : f \in SliceFields(ty)})

\* The kinds of field that are not a nested record.
ScalarKinds == {"int", "tag", "f32", "bool", "handle", "slice", "color"}

\* Whether every field of rec, a record of type ty, that no setter writes is
\* zero, in rec and in the records nested in it.
RECURSIVE SetterlessAreZero(_, _)
SetterlessAreZero(ty, rec) ==
    /\ \A f \in SetterlessFields(ty) : IsZero(FieldKinds(ty)[f], rec[f])
    /\ \A f \in DOMAIN FieldKinds(ty) :
           FieldKinds(ty)[f] \notin ScalarKinds =>
               SetterlessAreZero(FieldKinds(ty)[f], rec[f])

\* C21: a field that has no setter stays at its default after any sequence
\* of builder calls: instance_step_rate of VertexBufferDescription is 0, and
\* the props and padding fields of TextureCreateInfo, SamplerCreateInfo and
\* the other records are zero, in every reachable descriptor and in the
\* records nested in it.
C21_SetterlessStayZero ==
    d.ty # "none" =>
        /\ SetterlessAreZero(d.ty, d.inner)
        /\ d.ty = "VertexBufferDescription" => d.inner.instance_step_rate = 0
        /\ d.ty \in {"TextureCreateInfo", "SamplerCreateInfo"} => d.inner.props = 0
        /\ d.ty = "SamplerCreateInfo" => d.inner.padding1 = 0 /\ d.inner.padding2 = 0

\* Every setter of VertexBufferDescription has been called, with_input_rate
\* last with INSTANCE, and the reserved field is among the setter-less ones.
C21_Witness ==
    /\ d.ty = "VertexBufferDescription"
    /\ call.step = "setter"
    /\ call.fn = "VertexBufferDescription::with_input_rate"
    /\ d.inner.slot = 7 /\ d.inner.pitch = 7 /\ d.inner.input_rate = 1
    /\ "instance_step_rate" \in SetterlessFields(d.ty)
    /\ d.inner.instance_step_rate = 0

\* The most setter calls made on a descriptor before the two calls compared.
MaxPrior == 1

\* C22: setters are last-write-wins and order-independent across fields.  For
\* a descriptor d and calls x, y of its setters: if x and y are calls of the
\* same setter, y after x gives the fields that y alone gives (so a call
\* made twice gives what it gives once); if they are setters of different
\* fields, y after x gives the descriptor that x after y gives.  The setters
\* that take a nested record store the record passed, whole.
C22_LastWriteWinsAndCommute ==
    (d.ty # "none" /\ ncalls <= MaxPrior) =>
        /\ \A x \in SetterCalls(d.ty) : \A y \in SetterCalls(d.ty) :
               /\ x[1] = y[1] =>
                      /\ Apply(Apply(d, x), y).ty = Apply(d, y).ty
                      /\ Apply(Apply(d, x), y).inner = Apply(d, y).inner
               /\ x[2] # y[2] => Apply(Apply(d, x), y) = Apply(Apply(d, y), x)
        /\ d.ty = "DepthStencilState" =>
               \A s \in StencilOpStateInputs :
                   /\ DepthStencilState_with_back_stencil_state(d, s)
                          .inner.back_stencil_state = s.inner
                   /\ DepthStencilState_with_front_stencil_state(d, s)
                          .inner.front_stencil_state = s.inner
        /\ d.ty = "ColorTargetDescription" =>
               \A s \in ColorTargetBlendStateInputs :
                   ColorTargetDescription_with_blend_state(d, s).inner.blend_state = s.inner

\* with_back_stencil_state was called on a new DepthStencilState with a
\* record that is not the default one; two calls of with_front_stencil_state
\* that give different descriptors are made on it in a row, and a call of
\* with_compare_mask before and after one of them.
C22_Witness ==
    /\ d.ty = "DepthStencilState"
    /\ ncalls = 1
    /\ call.fn = "DepthStencilState::with_back_stencil_state"
    /\ ~IsZero("StencilOpState", d.inner.back_stencil_state)
    /\ \E x \in SetterCalls(d.ty) : \E y \in SetterCalls(d.ty) :
           /\ x[1] = "DepthStencilState::with_front_stencil_state"
           /\ y[1] = "DepthStencilState::with_front_stencil_state"
           /\ Apply(d, x).inner # Apply(d, y).inner
           /\ Apply(Apply(d, x), y).inner = Apply(d, y).inner
           /\ Apply(Apply(d, x), y).inner.back_stencil_state = d.inner.back_stencil_state
    /\ \E x \in SetterCalls(d.ty) : \E y \in SetterCalls(d.ty) :
           /\ x[1] = "DepthStencilState::with_front_stencil_state"
           /\ y[1] = "DepthStencilState::with_compare_mask"
           /\ Apply(d, x) # d
           /\ Apply(d, y) # d
           /\ Apply(Apply(d, x), y) = Apply(Apply(d, y), x)

=============================================================================
